---- MODULE Spec2Model ----
(***************************************************************************)
(* fast_bench: the baseline throughput prober (baseline_probe.py), the     *)
(* metrics sampler (metrics_agent.py) and the window coordinate mapping    *)
(* (ui_attach.py), as state machines.                                      *)
(*                                                                         *)
(* Time is a clock of whole ticks (one tick stands for one second of       *)
(* time.time()); every blocking call advances it by a chosen amount.       *)
(* Floating-point quotients that the code reports are kept as exact        *)
(* rationals <<numerator, denominator>>.                                   *)
(***************************************************************************)
EXTENDS Integers, Sequences, FiniteSets, TLC

\* ------------------------------------------------------------------ bounds
MaxDuration == 2     \* largest duration_sec passed to a probe, in ticks
MaxDt == 1           \* longest single blocking call, in ticks
MaxChunks == 3       \* chunk reads / requests issued by one probe call
MaxWorkers == 2      \* workers of the parallel probe
MaxSamples == 101    \* chunk times collected before the percentiles are taken
MaxMetricsDuration == 4  \* largest --duration of the metrics agent, in seconds
MaxEdits == 2        \* keys removed from or changed in a valid configuration document
MaxIndex == 13       \* largest number of requests issued before a ranged GET
MaxAttachTimeout == 6 \* largest timeout given to attach_petrel, in seconds
MaxContent == 3      \* largest length of the content given to safe_write
MaxSide == 4         \* largest width and height of a window rectangle
MaxOrigin == 2       \* largest distance of a window's left and top from the screen origin
FloatScale == 64     \* a float is a multiple of 1/FloatScale
MaxCollect == 2      \* longest collect_sample + writerow, in ticks of the agent's clock

\* ------------------------------------------------------- program constants
MB == 1048576            \* 1024 * 1024
DrainTimeout == 5        \* as_completed(..., timeout=5)
DefaultChunkMb == 8      \* chunk_size_mb: int = 8

OneSecond == 1           \* the 1.0 of the 1 Hz loop, in ticks of the agent's clock
Pid == 4321              \* the pid argument of the metrics agent

\* Python's None, for the optional numbers (link speed, counters)
NONE == -1

\* before a call returns
NoRet == [pending |-> TRUE]

\* an empty dict {}
EmptyDict == [k \in {} |-> NONE]

VARIABLES
    \* --- one call of a probe operation of BaselineProbe
    probe,           \* the operation called: "nas", "azure", "parallel", "azcopy"
    ppc,             \* position in it: "call", "loop", "drain", "ret", "raised"
    now,             \* time.time()
    start_time,
    duration_sec,
    chunk_size_mb,
    file_size,       \* size of test_file, bytes
    f_pos,           \* position of the open file f
    n_urls,          \* len(sas_urls)
    workers,
    bytes_read,
    chunk_times,
    url_idx,         \* url_idx (single-threaded) / chunk_idx (parallel)
    futures,         \* the futures dict: a set of in-flight request records
    drain_start,     \* when as_completed(...) was entered
    net_io_start,    \* NONE or the bytes_recv counter read at the start
    host,            \* what the host did during the call (NONE before its end):
                     \* the bytes it received, whether the counter could be read
                     \* at the end and, for azcopy, how the subprocess ended and
                     \* the number of files it reported as completed
    link_speed_mbps, \* self.link_speed_mbps: NONE or a speed
    ret,             \* what the call returned (or the exception it raised)
    completions,     \* the worker calls that returned: [idx, bytes, elapsed]
    additions,       \* what the coordinating thread added to bytes_read and
                     \* chunk_times, in order: [idx, bytes, elapsed, by]
    requests,        \* chunk reads / requests issued so far
    errors,          \* exceptions raised so far by chunk reads / requests
    refused          \* responses received so far with a status other than 200 and 206

\* the state of one probe call, apart from self.link_speed_mbps
probeLocals == <<probe, ppc, now, start_time, duration_sec, chunk_size_mb, file_size,
                 f_pos, n_urls, workers, bytes_read, chunk_times, url_idx, futures,
                 drain_start, net_io_start, host, completions, additions, ret,
                 requests, errors, refused>>

probeVars == <<probeLocals, link_speed_mbps>>

VARIABLES
    \* --- a command line run: python -m fast_bench.baseline_probe / metrics_agent
    cli,             \* "baseline", "metrics", or "none"
    entry,           \* "main": the CLI entry point; "run": BaselineProbe.run() called directly
    cpc,             \* position of the run
    exit_code,       \* NONE while running, then the process's exit code
    stderr,          \* the kinds of message printed to stderr
    \* baseline probe
    cfg_file,        \* the config file: "missing", "empty", "invalid", "valid"
    has_azcopy_attr, \* config.data_sources.azure_blob has an azcopy_benchmark_url attribute
    azcopy_url_set,  \* ... and its value is truthy
    nas_dir,         \* benchmark.nas_test_dir: "missing", "empty", "files"
    sas_count,       \* len(sas_download_urls)
    results,         \* self.results, by key path
    capacity_results,\* run()'s local capacity_results
    ran,             \* the stages run() has executed, in order
    \* metrics agent
    pid_given_exists,\* the pid argument names a live process when the agent starts
    alive,           \* the monitored process exists now
    m_duration,      \* --duration: NONE or seconds
    platform,        \* sys.platform: "win32" or "other"
    faults,          \* the host: which metric sources fail when they are read
    gpu_initialized,
    m_now,           \* time.time(), in ticks of 1/OneSecond s
    m_start,         \* run()'s start_time
    header,          \* the header row of the CSV, <<>> before it is written
    rows,            \* sample rows written
    sample,          \* the last sample collect_sample returned
    prev_io,
    prev_net,
    prev_time

baselineVars == <<cfg_file, has_azcopy_attr, azcopy_url_set, nas_dir, sas_count, results,
                  capacity_results, ran>>

metricsVars == <<pid_given_exists, alive, m_duration, platform, faults, gpu_initialized, m_now,
                 m_start, header, rows, sample, prev_io, prev_net, prev_time>>

cliVars == <<cli, entry, cpc, exit_code, stderr, baselineVars, metricsVars>>

VARIABLES
    \* --- one round trip to_abs(to_rel(x, y, rect), rect)
    kpc,             \* "start", "rel" (to_rel returned), "abs" (to_abs returned)
    rect,            \* the WindowRect
    pt,              \* the point <<x, y>>
    rel,             \* what to_rel returned, as fixed-point numerators <<rel_x, rel_y>>
    back             \* what to_abs returned

coordVars == <<kpc, rect, pt, rel, back>>

VARIABLES
    \* --- one call of load_config(config_path) or of Config(**config_dict)
    lpc,             \* "call", "returned", "raised"
    loader,          \* "load_config" or "Config"
    config_path,     \* what the path holds: "missing", "unreadable", "malformed",
                     \* "empty", "scalar", "document"
    config_dict,     \* the document
    parsed,          \* yaml.safe_load has been called
    loaded           \* the Config object returned, or the exception raised

configVars == <<lpc, loader, config_path, config_dict, parsed, loaded>>

VARIABLES
    \* --- one Range header computed by an Azure probe
    rpc,             \* "call", "done"
    range_caller,    \* "test_azure_throughput" or "_download_chunk_worker"
    range_idx,       \* the number of requests issued before this one
    range_chunk_mb,  \* chunk_size_mb
    range_hdr        \* the range requested: [range_start, range_end]

rangeVars == <<rpc, range_caller, range_idx, range_chunk_mb, range_hdr>>

VARIABLES
    \* --- one call of attach_petrel
    apc,             \* "call", "wait", "returned", "raised"
    sys_platform,    \* sys.platform
    launch_if_not_found,
    attach_timeout,  \* timeout, in seconds
    attach_now,      \* the clock, in seconds since start_time
    launches,        \* the number of subprocess.Popen calls made
    connects,        \* the number of Application.connect calls made
    attached         \* the window returned, or the exception raised

attachVars == <<apc, sys_platform, launch_if_not_found, attach_timeout, attach_now,
                launches, connects, attached>>

\* the units that are called on their own
VARIABLES
    \* --- one call of safe_write or safe_write_json
    wpc,             \* "json", "open", "write", "replace", "except", "returned", "raised"
    content_len,     \* the length of the content to write
    target,          \* the file at path: Absent, Previous or Written(n)
    target_before,   \* the file at path when the call began
    temp,            \* the file at temp_path: Absent, Leftover or Written(n)
    failed_at,       \* the step that raised first, or ""
    propagated       \* the step whose exception left the call, or ""

fileVars == <<wpc, content_len, target, target_before, temp, failed_at, propagated>>

VARIABLES
    \* --- one call of parse_iso8601
    ipc,             \* "call", "returned", "raised"
    timestamp,       \* the argument: [wellformed, month, hour, micro, zone]
    iso_result,      \* the datetime returned: [month, hour, micro, aware, offset], or NONE
    iso_raised       \* the class of the exception raised, or ""

isoVars == <<ipc, timestamp, iso_result, iso_raised>>

unitVars == <<rangeVars, attachVars, fileVars, isoVars>>

vars == <<probeVars, cliVars, coordVars, configVars, unitVars>>

\* ----------------------------------------------------------------- helpers
Min(a, b) == IF a <= b THEN a ELSE b
Max(a, b) == IF a >= b THEN a ELSE b

Abs(a) == IF a < 0 THEN -a ELSE a

RECURSIVE GCD(_, _)
GCD(a, b) == IF b = 0 THEN a ELSE GCD(b, a % b)

\* a / b (b > 0) as Python computes a float quotient, kept exact and in lowest terms
Rat(n, d) == LET g == GCD(Abs(n), d) IN <<n \div g, d \div g>>
RatZero == <<0, 1>>

RECURSIVE Insert(_, _)
Insert(x, s) ==
    IF s = <<>> THEN <<x>>
    ELSE IF x <= Head(s) THEN <<x>> \o s
    ELSE <<Head(s)>> \o Insert(x, Tail(s))

\* the list left as it was collected
ListSort_Unsorted(s) == s

\* list.sort(): ascending
RECURSIVE ListSort(_)
ListSort(s) == IF s = <<>> THEN <<>> ELSE Insert(Head(s), ListSort(Tail(s)))

\* the product rounded up instead of truncated
PctIdx_Ceil(n, pct) == (n * pct + 99) \div 100

\* int(n * 0.95), int(n * 0.99): the float product truncated; it equals the
\* exact floor of n*pct/100 for every n below 200000
PctIdx(n, pct) == (n * pct) \div 100

\* p95_idx = int(len(chunk_times) * 0.95), and the parallel probe's
\* "... if chunk_times else 0"
p95_idx(variant, times) ==
    IF variant = "parallel" THEN (IF times # <<>> THEN PctIdx(Len(times), 95) ELSE 0)
    ELSE PctIdx(Len(times), 95)

p99_idx(variant, times) ==
    IF variant = "parallel" THEN (IF times # <<>> THEN PctIdx(Len(times), 99) ELSE 0)
    ELSE PctIdx(Len(times), 99)

\* chunk_times[idx] * 1000 if idx < len(chunk_times) else 0   (0-based idx)
chunk_time_ms(sorted, idx) ==
    IF idx < Len(sorted) THEN sorted[idx + 1] * 1000 ELSE 0

\* {'success': False, 'error': ...}
Failure(msg) == [success |-> FALSE, error |-> msg]

\* the ratio to the link speed, not as a percentage
LinkUtilization_Fraction(mbps, speed) ==
    IF speed # NONE /\ speed > 0
    THEN Rat(mbps[1], mbps[2] * speed)
    ELSE RatZero

\* link_utilization_pct
LinkUtilization(mbps, speed) ==
    IF speed # NONE /\ speed > 0
    THEN Rat(mbps[1] * 100, mbps[2] * speed)
    ELSE RatZero

\* the megabytes read, not divided by the elapsed time
Throughput_NoElapsed(bytes, elapsed) == Rat(bytes, MB)

\* throughput_mbs = (bytes_read / (1024 * 1024)) / elapsed
Throughput(bytes, elapsed) == Rat(bytes, MB * elapsed)

\* the stats dictionary of the three throughput probes
Stats(variant, times, bytes, elapsed, net_bytes_recv, speed, nworkers) ==
    LET sorted == ListSort(times)
        throughput_mbs == Throughput(bytes, elapsed)
        net_bandwidth_mbs ==
            IF net_bytes_recv = NONE THEN throughput_mbs
            ELSE Throughput(net_bytes_recv, elapsed)
        net_bandwidth_mbps == Rat(net_bandwidth_mbs[1] * 8, net_bandwidth_mbs[2])
        base == [success |-> TRUE,
                 duration_sec |-> elapsed,
                 bytes_read |-> bytes,
                 throughput_mbs |-> throughput_mbs,
                 network_bandwidth_mbs |-> net_bandwidth_mbs,
                 network_bandwidth_mbps |-> net_bandwidth_mbps,
                 link_utilization_pct |-> LinkUtilization(net_bandwidth_mbps, speed),
                 chunk_count |-> Len(sorted),
                 chunk_time_p95_ms |-> chunk_time_ms(sorted, p95_idx(variant, sorted)),
                 chunk_time_p99_ms |-> chunk_time_ms(sorted, p99_idx(variant, sorted))]
    IN  IF variant = "parallel"
        THEN [k \in DOMAIN base \cup {"workers"} |->
                 IF k = "workers" THEN nworkers ELSE base[k]]
        ELSE base

\* the clock read after a loop (elapsed = time.time() - start_time): it returns the
\* time of the last read, or a later one where that decides whether elapsed is 0
ClockAdvance(elapsed_so_far) == IF elapsed_so_far = 0 THEN {0, 1} ELSE {0}

\* ----------------------------------------------------- inputs of a probe call
ChunkSizesMb == {DefaultChunkMb}
UrlCounts == {0, 2}
FileSizes == {0, 4 * MB, 12 * MB}
LinkSpeeds == {NONE, 1000}
NetDeltas == {0, 16 * MB}

chunk_size == chunk_size_mb * 1024 * 1024

Elapsed == now - start_time

\* ------------------------------------------- components that are not running
\* BaselineProbe.__init__ (lines 38-53): results, and no link speed detected yet
InitResults == [machine |-> EmptyDict, nas |-> EmptyDict, azure |-> EmptyDict]

ProbeIdle ==
    /\ probe = "none" /\ ppc = "idle"
    /\ now = 0 /\ start_time = 0 /\ duration_sec = 0
    /\ chunk_size_mb = DefaultChunkMb
    /\ file_size = 0 /\ f_pos = 0 /\ n_urls = 0 /\ workers = 0
    /\ bytes_read = 0 /\ chunk_times = <<>> /\ url_idx = 0 /\ futures = {}
    /\ drain_start = 0 /\ net_io_start = NONE /\ host = NONE
    /\ completions = {} /\ additions = <<>>
    /\ link_speed_mbps = NONE
    /\ ret = NoRet /\ requests = 0 /\ errors = 0 /\ refused = 0

BaselineIdle ==
    /\ cfg_file = "valid" /\ has_azcopy_attr = FALSE /\ azcopy_url_set = FALSE
    /\ nas_dir = "missing" /\ sas_count = 0
    /\ results = InitResults /\ capacity_results = EmptyDict /\ ran = <<>>

MetricsIdle ==
    /\ pid_given_exists = FALSE /\ alive = FALSE /\ m_duration = NONE
    /\ platform = "other" /\ gpu_initialized = FALSE
    /\ faults = [access |-> "ok", net |-> "ok", gpu |-> "ok"]
    /\ m_now = 0 /\ m_start = 0 /\ header = <<>> /\ rows = 0 /\ sample = NoRet
    /\ prev_io = NONE /\ prev_net = NONE /\ prev_time = NONE

CliIdle ==
    /\ cli = "none" /\ entry = "none" /\ cpc = "idle" /\ exit_code = NONE /\ stderr = {}
    /\ BaselineIdle /\ MetricsIdle

CoordIdle ==
    /\ kpc = "idle"
    /\ rect = [left |-> 0, top |-> 0, right |-> 0, bottom |-> 0]
    /\ pt = <<0, 0>> /\ rel = NoRet /\ back = NoRet

ConfigIdle ==
    /\ lpc = "idle" /\ loader = "none" /\ config_path = "missing"
    /\ config_dict = EmptyDict /\ parsed = FALSE /\ loaded = NoRet

RangeIdle ==
    /\ rpc = "idle" /\ range_caller = "none" /\ range_idx = 0
    /\ range_chunk_mb = DefaultChunkMb /\ range_hdr = NoRet

AttachIdle ==
    /\ apc = "idle" /\ sys_platform = "win32" /\ launch_if_not_found = FALSE
    /\ attach_timeout = 0 /\ attach_now = 0 /\ launches = 0 /\ connects = 0
    /\ attached = NoRet

FileIdle ==
    /\ wpc = "idle" /\ content_len = 0 /\ target = NONE /\ target_before = NONE
    /\ temp = NONE /\ failed_at = "" /\ propagated = ""

IsoIdle == ipc = "idle" /\ timestamp = NONE /\ iso_result = NONE /\ iso_raised = ""

UnitsIdle == RangeIdle /\ AttachIdle /\ FileIdle /\ IsoIdle

InitProbe ==
    /\ CliIdle /\ CoordIdle /\ ConfigIdle /\ UnitsIdle
    /\ probe \in {"nas", "azure", "parallel", "azcopy"}
    /\ ppc = "call"
    /\ now = 0
    /\ start_time = 0
    /\ duration_sec \in 0..MaxDuration
    /\ chunk_size_mb \in (IF probe = "azcopy" THEN {DefaultChunkMb} ELSE ChunkSizesMb)
    /\ file_size \in (IF probe = "nas" THEN FileSizes ELSE {0})
    /\ f_pos = 0
    /\ n_urls \in (IF probe \in {"azure", "parallel"} THEN UrlCounts
                   ELSE IF probe = "azcopy" THEN {1} ELSE {0})
    /\ workers \in (IF probe = "parallel" THEN 1..MaxWorkers ELSE {0})
    /\ bytes_read = 0
    /\ chunk_times = <<>>
    /\ url_idx = 0
    /\ futures = {}
    /\ drain_start = 0
    /\ net_io_start = NONE
    /\ host = NONE
    /\ completions = {}
    /\ additions = <<>>
    /\ link_speed_mbps \in LinkSpeeds
    /\ ret = NoRet
    /\ requests = 0
    /\ errors = 0
    /\ refused = 0

\* the call is over: a record was returned
Return(r) ==
    /\ ppc' = "ret"
    /\ ret' = r

\* the call is over: an exception left it
Raise(e) ==
    /\ ppc' = "raised"
    /\ ret' = [exception |-> e]

\* ------------------------------------------------------ test_nas_throughput
\* lines 157-195: the checks before the loop, and open()
NasCall ==
    /\ probe = "nas" /\ ppc = "call"
    /\ \E exists \in BOOLEAN, stat_ok \in BOOLEAN, net_ok \in BOOLEAN, open_ok \in BOOLEAN :
         IF ~exists THEN
            /\ Return(Failure("File not found"))
            /\ UNCHANGED <<start_time, net_io_start>>
         ELSE IF ~stat_ok THEN
            /\ Return(Failure("Cannot access file"))
            /\ UNCHANGED <<start_time, net_io_start>>
         ELSE
            /\ start_time' = now
            /\ net_io_start' = IF net_ok THEN 0 ELSE NONE
            /\ IF open_ok THEN ppc' = "loop" /\ UNCHANGED ret
               ELSE Return(Failure("OSError"))
    /\ UNCHANGED <<cliVars, coordVars, configVars, unitVars>>
    /\ UNCHANGED <<probe, now, duration_sec, chunk_size_mb, file_size, f_pos, n_urls,
                   workers, bytes_read, chunk_times, url_idx, futures, drain_start,
                   link_speed_mbps, refused, completions, additions, host, requests, errors>>

\* NasRead with the failed read swallowed and the loop going on to the next chunk
NasRead_Swallow ==
    /\ probe = "nas" /\ ppc = "loop"
    /\ Elapsed < duration_sec
    /\ requests < MaxChunks
    /\ \E dt \in 0..MaxDt, read_ok \in BOOLEAN :
         /\ now' = now + dt
         /\ requests' = requests + 1
         /\ errors' = IF read_ok THEN errors ELSE errors + 1
         /\ UNCHANGED <<f_pos, bytes_read, chunk_times, ppc, ret>>
    /\ UNCHANGED <<cliVars, coordVars, configVars, unitVars>>
    /\ UNCHANGED <<probe, start_time, duration_sec, chunk_size_mb, file_size, n_urls,
                   workers, url_idx, futures, drain_start, net_io_start, link_speed_mbps, refused, completions, additions, host>>

\* the read loop without the seek to offset 0 at end-of-file
NasRead_NoSeek ==
    /\ probe = "nas" /\ ppc = "loop"
    /\ Elapsed < duration_sec
    /\ requests < MaxChunks
    /\ \E dt \in 0..MaxDt, read_ok \in BOOLEAN :
         /\ now' = now + dt
         /\ requests' = requests + 1
         /\ IF ~read_ok THEN
               /\ errors' = errors + 1
               /\ Return(Failure("OSError"))
               /\ UNCHANGED <<f_pos, bytes_read, chunk_times, additions>>
            ELSE
               LET data == Min(chunk_size, file_size - f_pos) IN
               /\ UNCHANGED <<errors, ppc, ret>>
               /\ IF data = 0
                  THEN /\ f_pos' = f_pos
                       /\ UNCHANGED <<bytes_read, chunk_times, additions>>
                  ELSE /\ f_pos' = f_pos + data
                       /\ bytes_read' = bytes_read + data
                       /\ chunk_times' = Append(chunk_times, dt)
                       /\ additions' = Append(additions, [idx |-> requests, bytes |-> data,
                                                           elapsed |-> dt, by |-> "read"])
    /\ UNCHANGED <<cliVars, coordVars, configVars, unitVars>>
    /\ UNCHANGED <<probe, start_time, duration_sec, chunk_size_mb, file_size, n_urls,
                   workers, url_idx, futures, drain_start, net_io_start, link_speed_mbps, refused,
                   completions, host>>

\* lines 196-207: one pass of the read loop
NasRead ==
    /\ probe = "nas" /\ ppc = "loop"
    /\ Elapsed < duration_sec
    /\ requests < MaxChunks
    /\ \E dt \in 0..MaxDt, read_ok \in BOOLEAN :
         /\ now' = now + dt
         /\ requests' = requests + 1
         /\ IF ~read_ok THEN
               /\ errors' = errors + 1
               /\ Return(Failure("OSError"))
               /\ UNCHANGED <<f_pos, bytes_read, chunk_times, additions>>
            ELSE
               LET data == Min(chunk_size, file_size - f_pos) IN
               /\ UNCHANGED <<errors, ppc, ret>>
               /\ IF data = 0
                  THEN /\ f_pos' = 0
                       /\ UNCHANGED <<bytes_read, chunk_times, additions>>
                  ELSE /\ f_pos' = f_pos + data
                       /\ bytes_read' = bytes_read + data
                       /\ chunk_times' = Append(chunk_times, dt)
                       /\ additions' = Append(additions, [idx |-> requests, bytes |-> data,
                                                           elapsed |-> dt, by |-> "read"])
    /\ UNCHANGED <<cliVars, coordVars, configVars, unitVars>>
    /\ UNCHANGED <<probe, start_time, duration_sec, chunk_size_mb, file_size, n_urls,
                   workers, url_idx, futures, drain_start, net_io_start, link_speed_mbps, refused,
                   completions, host>>

\* lines 209-260: the statistics after the loop
NasFinish ==
    /\ probe = "nas" /\ ppc = "loop"
    /\ Elapsed >= duration_sec
    /\ \E dt \in ClockAdvance(now - start_time), net_ok \in BOOLEAN, delta \in NetDeltas :
         LET elapsed == now + dt - start_time
             recv == IF net_io_start # NONE /\ net_ok THEN delta ELSE NONE
         IN  /\ now' = now + dt
             /\ host' = [recv |-> delta, read |-> recv # NONE]
             /\ IF elapsed = 0
                THEN Return(Failure("float division by zero"))
                ELSE Return(Stats("nas", chunk_times, bytes_read, elapsed, recv,
                                  link_speed_mbps, workers))
    /\ UNCHANGED <<cliVars, coordVars, configVars, unitVars>>
    /\ UNCHANGED <<probe, start_time, duration_sec, chunk_size_mb, file_size, f_pos,
                   n_urls, workers, bytes_read, chunk_times, url_idx, futures,
                   drain_start, net_io_start, link_speed_mbps, refused, completions, additions, requests, errors>>

\* ---------------------------------------------------- test_azure_throughput
\* lines 274-287: the URL check, and the unguarded psutil.net_io_counters()
AzureCall ==
    /\ probe = "azure" /\ ppc = "call"
    /\ IF n_urls = 0 THEN
          /\ Return(Failure("No SAS URLs"))
          /\ UNCHANGED <<start_time, net_io_start>>
       ELSE
          \E net_ok \in BOOLEAN :
             /\ start_time' = now
             /\ IF net_ok
                THEN net_io_start' = 0 /\ ppc' = "loop" /\ UNCHANGED ret
                ELSE Raise("net_io_counters") /\ UNCHANGED net_io_start
    /\ UNCHANGED <<cliVars, coordVars, configVars, unitVars>>
    /\ UNCHANGED <<probe, now, duration_sec, chunk_size_mb, file_size, f_pos, n_urls,
                   workers, bytes_read, chunk_times, url_idx, futures, drain_start,
                   link_speed_mbps, refused, completions, additions, host, requests, errors>>

\* the body of an HTTP response with status 200 or 206
ContentLengths == {chunk_size}

\* a request issued without the test of the deadline
AzureGet_NoDeadline ==
    /\ probe = "azure" /\ ppc = "loop"
    /\ requests < MaxChunks
    /\ \E dt \in 0..MaxDt, outcome \in {"ok", "status", "exc"}, content \in ContentLengths :
         /\ now' = now + dt
         /\ url_idx' = url_idx + 1
         /\ requests' = requests + 1
         /\ refused' = (IF outcome = "status" THEN refused + 1 ELSE refused)
         /\ CASE outcome = "exc" ->
                   /\ errors' = errors + 1
                   /\ Return(Failure("ConnectionError"))
                   /\ UNCHANGED <<bytes_read, chunk_times>>
              [] outcome = "ok" ->
                   /\ bytes_read' = bytes_read + content
                   /\ chunk_times' = Append(chunk_times, dt)
                   /\ UNCHANGED <<errors, ppc, ret>>
              [] outcome = "status" ->
                   UNCHANGED <<bytes_read, chunk_times, errors, ppc, ret>>
    /\ UNCHANGED <<cliVars, coordVars, configVars, unitVars>>
    /\ UNCHANGED <<probe, start_time, duration_sec, chunk_size_mb, file_size, f_pos,
                   n_urls, workers, futures, drain_start, net_io_start, link_speed_mbps,
                   completions, additions, host>>

\* lines 290-308: one ranged GET of the loop
AzureGet ==
    /\ probe = "azure" /\ ppc = "loop"
    /\ Elapsed < duration_sec
    /\ requests < MaxChunks
    /\ \E dt \in 0..MaxDt, outcome \in {"ok", "status", "exc"}, content \in ContentLengths :
         /\ now' = now + dt
         /\ url_idx' = url_idx + 1
         /\ requests' = requests + 1
         /\ refused' = (IF outcome = "status" THEN refused + 1 ELSE refused)
         /\ CASE outcome = "exc" ->
                   /\ errors' = errors + 1
                   /\ Return(Failure("ConnectionError"))
                   /\ UNCHANGED <<bytes_read, chunk_times>>
              [] outcome = "ok" ->
                   /\ bytes_read' = bytes_read + content
                   /\ chunk_times' = Append(chunk_times, dt)
                   /\ UNCHANGED <<errors, ppc, ret>>
              [] outcome = "status" ->
                   UNCHANGED <<bytes_read, chunk_times, errors, ppc, ret>>
    /\ UNCHANGED <<cliVars, coordVars, configVars, unitVars>>
    /\ UNCHANGED <<probe, start_time, duration_sec, chunk_size_mb, file_size, f_pos,
                   n_urls, workers, futures, drain_start, net_io_start, link_speed_mbps,
                   completions, additions, host>>

\* lines 310-350: the statistics after the loop
AzureFinish ==
    /\ probe = "azure" /\ ppc = "loop"
    /\ Elapsed >= duration_sec
    /\ \E dt \in ClockAdvance(now - start_time), net_ok \in BOOLEAN, delta \in NetDeltas :
         LET elapsed == now + dt - start_time IN
         /\ now' = now + dt
         /\ host' = [recv |-> delta, read |-> net_ok]
         /\ IF elapsed = 0 THEN Return(Failure("float division by zero"))
            ELSE IF ~net_ok THEN Return(Failure("net_io_counters"))
            ELSE Return(Stats("azure", chunk_times, bytes_read, elapsed, delta,
                              link_speed_mbps, workers))
    /\ UNCHANGED <<cliVars, coordVars, configVars, unitVars>>
    /\ UNCHANGED <<probe, start_time, duration_sec, chunk_size_mb, file_size, f_pos,
                   n_urls, workers, bytes_read, chunk_times, url_idx, futures,
                   drain_start, net_io_start, link_speed_mbps, refused, completions, additions, requests, errors>>

\* ------------------------------------------- test_azure_throughput_parallel
\* lines 391-404
ParallelCall ==
    /\ probe = "parallel" /\ ppc = "call"
    /\ IF n_urls = 0 THEN
          /\ Return(Failure("No SAS URLs"))
          /\ UNCHANGED <<start_time, net_io_start>>
       ELSE
          \E net_ok \in BOOLEAN :
             /\ start_time' = now
             /\ IF net_ok
                THEN net_io_start' = 0 /\ ppc' = "loop" /\ UNCHANGED ret
                ELSE Raise("net_io_counters") /\ UNCHANGED net_io_start
    /\ UNCHANGED <<cliVars, coordVars, configVars, unitVars>>
    /\ UNCHANGED <<probe, now, duration_sec, chunk_size_mb, file_size, f_pos, n_urls,
                   workers, bytes_read, chunk_times, url_idx, futures, drain_start,
                   link_speed_mbps, refused, completions, additions, host, requests, errors>>

\* submitting without looking at the number of pending futures
ParallelSubmit_NoCapacity ==
    /\ probe = "parallel" /\ ppc = "loop"
    /\ Elapsed < duration_sec
    /\ requests < MaxChunks
    /\ futures' = futures \cup
          {[idx |-> url_idx, t0 |-> now, st |-> "running", bytes |-> 0, elapsed |-> 0]}
    /\ url_idx' = url_idx + 1
    /\ requests' = requests + 1
    /\ UNCHANGED <<cliVars, coordVars, configVars, unitVars>>
    /\ UNCHANGED <<probe, ppc, now, start_time, duration_sec, chunk_size_mb, file_size,
                   f_pos, n_urls, workers, bytes_read, chunk_times, drain_start,
                   net_io_start, link_speed_mbps, refused, completions, additions, host, ret, errors>>

\* lines 414-418: executor.submit of one chunk
ParallelSubmit ==
    /\ probe = "parallel" /\ ppc = "loop"
    /\ Elapsed < duration_sec
    /\ Cardinality(futures) < workers
    /\ requests < MaxChunks
    /\ futures' = futures \cup
          {[idx |-> url_idx, t0 |-> now, st |-> "running", bytes |-> 0, elapsed |-> 0]}
    /\ url_idx' = url_idx + 1
    /\ requests' = requests + 1
    /\ UNCHANGED <<cliVars, coordVars, configVars, unitVars>>
    /\ UNCHANGED <<probe, ppc, now, start_time, duration_sec, chunk_size_mb, file_size,
                   f_pos, n_urls, workers, bytes_read, chunk_times, drain_start,
                   net_io_start, link_speed_mbps, refused, completions, additions, host, ret, errors>>

\* lines 352-374: _download_chunk_worker ends, in its own thread: it returns
\* (len(response.content), elapsed) on 200/206, (0, elapsed) on another status,
\* or requests.get raises. While the coordinating thread runs its loop the
\* clock moves with that loop's sleep; while it is blocked in as_completed or
\* in the executor's shutdown, the clock moves until a worker ends.
DownloadChunkWorker ==
    /\ probe = "parallel" /\ ppc \in {"loop", "drain", "shutdown"}
    /\ \E f \in futures, outcome \in {"ok", "status", "exc"}, content \in ContentLengths,
          dt \in (IF ppc = "loop" THEN {0} ELSE 0..MaxDt) :
         /\ f.st = "running"
         /\ ppc = "drain" => now + dt - drain_start <= DrainTimeout
         /\ now' = now + dt
         /\ futures' = (futures \ {f}) \cup
               {[f EXCEPT !.st = IF outcome = "exc" THEN "exc" ELSE "done",
                          !.bytes = IF outcome = "ok" THEN content ELSE 0,
                          !.elapsed = now + dt - f.t0]}
         /\ completions' = (IF outcome = "exc" THEN completions
                            ELSE completions \cup
                                 {[idx |-> f.idx, elapsed |-> now + dt - f.t0,
                                   bytes |-> IF outcome = "ok" THEN content ELSE 0]})
         /\ errors' = IF outcome = "exc" THEN errors + 1 ELSE errors
         /\ refused' = IF outcome = "status" THEN refused + 1 ELSE refused
    /\ UNCHANGED <<cliVars, coordVars, configVars, unitVars>>
    /\ UNCHANGED <<probe, ppc, start_time, duration_sec, chunk_size_mb, file_size,
                   f_pos, n_urls, workers, bytes_read, chunk_times, url_idx, drain_start,
                   net_io_start, link_speed_mbps, additions, host, ret, requests>>

\* the futures of fs in the order they were submitted (dict order)
RECURSIVE InOrder(_)
InOrder(fs) ==
    IF fs = {} THEN <<>>
    ELSE LET f == CHOOSE g \in fs : \A h \in fs : g.idx <= h.idx
         IN  <<f>> \o InOrder(fs \ {f})

\* future.result() of each future of the sequence q: bytes and chunk times
RECURSIVE HarvestBytes(_)
HarvestBytes(q) ==
    IF q = <<>> THEN 0
    ELSE (IF Head(q).st = "done" THEN Head(q).bytes ELSE 0) + HarvestBytes(Tail(q))

RECURSIVE HarvestTimes(_)
HarvestTimes(q) ==
    IF q = <<>> THEN <<>>
    ELSE (IF Head(q).st = "done" THEN <<Head(q).elapsed>> ELSE <<>>) \o HarvestTimes(Tail(q))

\* the additions that harvesting the sequence q makes, in the loop or the drain
RECURSIVE HarvestAdditions(_, _)
HarvestAdditions(q, by) ==
    IF q = <<>> THEN <<>>
    ELSE (IF Head(q).st = "done"
          THEN <<[idx |-> Head(q).idx, bytes |-> Head(q).bytes, elapsed |-> Head(q).elapsed,
                  by |-> by]>>
          ELSE <<>>) \o HarvestAdditions(Tail(q), by)

\* harvesting without deleting the harvested futures
ParallelHarvest_NoDelete ==
    /\ probe = "parallel" /\ ppc = "loop"
    /\ Elapsed < duration_sec
    /\ Cardinality(futures) >= workers
    /\ LET done_futures == {f \in futures : f.st # "running"}
           q == InOrder(done_futures)
       IN  /\ bytes_read' = bytes_read + HarvestBytes(q)
           /\ chunk_times' = chunk_times \o HarvestTimes(q)
           /\ additions' = additions \o HarvestAdditions(q, "loop")
           /\ futures' = futures
    /\ \E dt \in 0..MaxDt : now' = now + dt
    /\ UNCHANGED <<cliVars, coordVars, configVars, unitVars>>
    /\ UNCHANGED <<probe, ppc, start_time, duration_sec, chunk_size_mb, file_size, f_pos,
                   n_urls, workers, url_idx, drain_start, net_io_start, link_speed_mbps, refused, completions, host,
                   ret, requests, errors>>

\* lines 420-441: the done futures are harvested and deleted, then sleep(0.01)
ParallelHarvest ==
    /\ probe = "parallel" /\ ppc = "loop"
    /\ Elapsed < duration_sec
    /\ Cardinality(futures) >= workers
    /\ LET done_futures == {f \in futures : f.st # "running"}
           q == InOrder(done_futures)
       IN  /\ bytes_read' = bytes_read + HarvestBytes(q)
           /\ chunk_times' = chunk_times \o HarvestTimes(q)
           /\ additions' = additions \o HarvestAdditions(q, "loop")
           /\ futures' = futures \ done_futures
    /\ \E dt \in 0..MaxDt : now' = now + dt
    /\ UNCHANGED <<cliVars, coordVars, configVars, unitVars>>
    /\ UNCHANGED <<probe, ppc, start_time, duration_sec, chunk_size_mb, file_size, f_pos,
                   n_urls, workers, url_idx, drain_start, net_io_start, link_speed_mbps, refused, completions, host,
                   ret, requests, errors>>

\* line 412 is false: the loop is left for as_completed(futures.keys(), timeout=5)
ParallelDrainStart ==
    /\ probe = "parallel" /\ ppc = "loop"
    /\ Elapsed >= duration_sec
    /\ ppc' = "drain"
    /\ drain_start' = now
    /\ UNCHANGED <<cliVars, coordVars, configVars, unitVars>>
    /\ UNCHANGED <<probe, now, start_time, duration_sec, chunk_size_mb, file_size, f_pos,
                   n_urls, workers, bytes_read, chunk_times, url_idx, futures,
                   net_io_start, link_speed_mbps, refused, completions, additions, host, ret, requests, errors>>

\* lines 444-450: as_completed yields one finished future
ParallelDrainOne ==
    /\ probe = "parallel" /\ ppc = "drain"
    /\ \E f \in futures :
         /\ f.st # "running"
         /\ bytes_read' = bytes_read + HarvestBytes(<<f>>)
         /\ chunk_times' = chunk_times \o HarvestTimes(<<f>>)
         /\ additions' = additions \o HarvestAdditions(<<f>>, "drain")
         /\ futures' = futures \ {f}
    /\ UNCHANGED <<cliVars, coordVars, configVars, unitVars>>
    /\ UNCHANGED <<probe, ppc, now, start_time, duration_sec, chunk_size_mb, file_size,
                   f_pos, n_urls, workers, url_idx, drain_start, net_io_start,
                   link_speed_mbps, refused, completions, host, ret, requests, errors>>

\* as_completed raises TimeoutError: futures are pending after 5 seconds
ParallelDrainTimeout ==
    /\ probe = "parallel" /\ ppc = "drain"
    /\ futures # {}
    /\ \A f \in futures : f.st = "running"
    /\ now' = Max(now, drain_start + DrainTimeout + 1)
    /\ ppc' = "shutdown"
    /\ UNCHANGED <<cliVars, coordVars, configVars, unitVars>>
    /\ UNCHANGED <<probe, start_time, duration_sec, chunk_size_mb, file_size, f_pos,
                   n_urls, workers, bytes_read, chunk_times, url_idx, futures,
                   drain_start, net_io_start, link_speed_mbps, refused, completions, additions, host, ret, requests, errors>>

\* the with-block's exit, executor.shutdown(wait=True), has joined the workers;
\* lines 491-493 turn the TimeoutError into a failure record
ParallelShutdown ==
    /\ probe = "parallel" /\ ppc = "shutdown"
    /\ \A f \in futures : f.st # "running"
    /\ Return(Failure("TimeoutError"))
    /\ UNCHANGED <<cliVars, coordVars, configVars, unitVars>>
    /\ UNCHANGED <<probe, now, start_time, duration_sec, chunk_size_mb, file_size, f_pos,
                   n_urls, workers, bytes_read, chunk_times, url_idx, futures,
                   drain_start, net_io_start, link_speed_mbps, refused, completions, additions, host, requests, errors>>

\* lines 452-493: the statistics after the drain
ParallelFinish ==
    /\ probe = "parallel" /\ ppc = "drain"
    /\ futures = {}
    /\ \E dt \in ClockAdvance(now - start_time), net_ok \in BOOLEAN, delta \in NetDeltas :
         LET elapsed == now + dt - start_time IN
         /\ now' = now + dt
         /\ host' = [recv |-> delta, read |-> net_ok]
         /\ IF elapsed = 0 THEN Return(Failure("float division by zero"))
            ELSE IF ~net_ok THEN Return(Failure("net_io_counters"))
            ELSE Return(Stats("parallel", chunk_times, bytes_read, elapsed, delta,
                              link_speed_mbps, workers))
    /\ UNCHANGED <<cliVars, coordVars, configVars, unitVars>>
    /\ UNCHANGED <<probe, start_time, duration_sec, chunk_size_mb, file_size, f_pos,
                   n_urls, workers, bytes_read, chunk_times, url_idx, futures,
                   drain_start, net_io_start, link_speed_mbps, refused, completions, additions, requests, errors>>

\* ---------------------------------------------------- test_azcopy_benchmark
\* num_files = max(5, duration_sec * 3)
NumFiles(d) == Max(5, d * 3)

\* the stats dictionary of the azcopy benchmark (lines 609-629)
AzcopyStats(elapsed, net_bytes_recv, speed, d) ==
    LET net_bandwidth_mbs == Throughput(net_bytes_recv, elapsed)
        net_bandwidth_mbps == Rat(net_bandwidth_mbs[1] * 8, net_bandwidth_mbs[2])
    IN  [success |-> TRUE,
         duration_sec |-> elapsed,
         throughput_mbs |-> net_bandwidth_mbs,
         network_bandwidth_mbs |-> net_bandwidth_mbs,
         network_bandwidth_mbps |-> net_bandwidth_mbps,
         link_utilization_pct |-> LinkUtilization(net_bandwidth_mbps, speed),
         bytes_transferred |-> net_bytes_recv,
         files_transferred |-> NumFiles(d),
         num_files_requested |-> NumFiles(d),
         file_size_mb |-> 64]

\* the numbers of files azcopy may report as completed, of n requested
AzcopyCompleted(n) == {n - 2, n}

\* the result with the exit code of azcopy not looked at
AzcopyResult_IgnoreExit(run, net_end_ok, elapsed, net_bytes_recv, speed, d) ==
    CASE run = "timeout" -> Failure("timeout")
      [] run = "oserror" -> Failure("OSError")
      [] OTHER ->
           IF ~net_end_ok THEN Failure("net_io_counters")
           ELSE IF elapsed = 0 THEN Failure("float division by zero")
           ELSE AzcopyStats(elapsed, net_bytes_recv, speed, d)

\* lines 585-646: what the call returns once subprocess.run has ended
AzcopyResult(run, net_end_ok, elapsed, net_bytes_recv, speed, d) ==
    CASE run = "timeout" -> Failure("timeout")
      [] run = "oserror" -> Failure("OSError")
      [] OTHER ->
           IF ~net_end_ok THEN Failure("net_io_counters")
           ELSE IF elapsed = 0 THEN Failure("float division by zero")
           ELSE IF run = "exit1" THEN Failure("azcopy exit code 1")
           ELSE AzcopyStats(elapsed, net_bytes_recv, speed, d)

\* lines 553-646, the whole call: _find_azcopy, the unguarded
\* psutil.net_io_counters(), subprocess.run and the result
AzcopyCall ==
    /\ probe = "azcopy" /\ ppc = "call"
    /\ \E found \in BOOLEAN, net_ok \in BOOLEAN, net_end_ok \in BOOLEAN,
          run \in {"timeout", "oserror", "exit1", "exit0"},
          dt \in 0..MaxDt, delta \in NetDeltas,
          completed \in AzcopyCompleted(NumFiles(duration_sec)) :
         IF ~found THEN
            /\ Return(Failure("azcopy not installed"))
            /\ host' = [azcopy |-> "not_found"]
            /\ UNCHANGED <<now, start_time, net_io_start, requests, errors>>
         ELSE IF ~net_ok THEN
            /\ Raise("net_io_counters")
            /\ host' = [azcopy |-> "not_run"]
            /\ UNCHANGED <<now, start_time, net_io_start, requests, errors>>
         ELSE
            /\ net_io_start' = 0
            /\ host' = [recv |-> delta, read |-> net_end_ok, azcopy |-> run,
                        completed |-> IF run \in {"exit0", "exit1"} THEN completed ELSE 0]
            /\ start_time' = now
            /\ now' = now + dt
            /\ requests' = requests + 1
            /\ errors' = IF run \in {"timeout", "oserror"} THEN errors + 1 ELSE errors
            /\ Return(AzcopyResult(run, net_end_ok, dt, delta, link_speed_mbps, duration_sec))
    /\ UNCHANGED <<cliVars, coordVars, configVars, unitVars>>
    /\ UNCHANGED <<probe, duration_sec, chunk_size_mb, file_size, f_pos, n_urls, workers,
                   bytes_read, chunk_times, url_idx, futures, drain_start,
                   link_speed_mbps, refused, completions, additions>>

NextProbe ==
    \/ NasCall \/ NasRead \/ NasFinish
    \/ AzureCall \/ AzureGet \/ AzureFinish
    \/ ParallelCall \/ ParallelSubmit \/ DownloadChunkWorker \/ ParallelHarvest
    \/ ParallelDrainStart \/ ParallelDrainOne
    \/ ParallelDrainTimeout \/ ParallelShutdown \/ ParallelFinish
    \/ AzcopyCall

SpecProbe == InitProbe /\ [][NextProbe]_vars

\* ------------------------------------------------- the percentile statistics
\* A probe at the end of its loop, with chunk times already collected: the
\* inputs of the percentile computation of lines 229-248, 319-338, 461-481.
PctTimes == {1, 2}

Repeat(v, k) == [i \in 1..k |-> v]

RECURSIVE Sum(_)
Sum(s) == IF s = <<>> THEN 0 ELSE Head(s) + Sum(Tail(s))

\* collected chunk times: a slow chunks and b fast ones, fast first or slow first
PctInputs ==
    UNION {{Repeat(1, a) \o Repeat(2, b), Repeat(2, b) \o Repeat(1, a)} :
              <<a, b>> \in {ab \in (0..MaxSamples) \X (0..MaxSamples) :
                               ab[1] + ab[2] <= MaxSamples}}

InitPct ==
    /\ CliIdle /\ CoordIdle /\ ConfigIdle /\ UnitsIdle
    /\ probe \in {"nas", "azure", "parallel"}
    /\ ppc = (IF probe = "parallel" THEN "drain" ELSE "loop")
    /\ chunk_times \in PctInputs
    /\ start_time = 0
    /\ now = Sum(chunk_times)
    /\ duration_sec = now
    /\ chunk_size_mb = DefaultChunkMb
    /\ file_size = (IF probe = "nas" THEN chunk_size ELSE 0)
    /\ f_pos = file_size
    /\ n_urls = (IF probe = "nas" THEN 0 ELSE 1)
    /\ workers = (IF probe = "parallel" THEN 1 ELSE 0)
    /\ bytes_read = Len(chunk_times) * chunk_size
    /\ url_idx = (IF probe = "nas" THEN 0 ELSE Len(chunk_times))
    /\ futures = {}
    /\ drain_start = now
    /\ net_io_start = 0
    /\ host = NONE
    /\ completions = {}
    /\ additions = <<>>
    /\ link_speed_mbps = NONE
    /\ ret = NoRet
    /\ requests = Len(chunk_times)
    /\ errors = 0
    /\ refused = 0

NextPct == NasFinish \/ AzureFinish \/ ParallelFinish

SpecPct == InitPct /\ [][NextPct]_vars

\* ------------------------------------------------ BaselineProbe.run and main
\* dict.update: the keys of g added to (or replaced in) f
Merge(f, g) == [k \in DOMAIN f \cup DOMAIN g |-> IF k \in DOMAIN g THEN g[k] ELSE f[k]]

\* the stages of run(), in the order of the source text
Stages == <<"machine", "nas", "azure_single", "azure_parallel", "azcopy">>

\* psutil.net_if_stats(): the interfaces a host may report
Nics == {[name |-> "Ethernet", isup |-> TRUE, speed |-> 1000],
         [name |-> "Wi-Fi", isup |-> TRUE, speed |-> 100],
         [name |-> "Ethernet 2", isup |-> FALSE, speed |-> 10000],
         [name |-> "Loopback Pseudo-Interface 1", isup |-> TRUE, speed |-> 10000]}

\* 'loopback' in name.lower()
IsLoopback(name) == name = "Loopback Pseudo-Interface 1"

\* the loop of lines 118-129: the largest speed of an up, non-loopback interface
MaxSpeed(net_if) ==
    LET speeds == {n.speed : n \in {m \in net_if : m.isup /\ ~IsLoopback(m.name)}} \cup {0}
    IN  CHOOSE v \in speeds : \A u \in speeds : u <= v

\* what a probe call gives back to run(): a success record, a failure record,
\* or an exception
ProbeOutcomes(stage) == IF stage = "nas" THEN {"ok", "fail"} ELSE {"ok", "fail", "raise"}
ProbeRecord(outcome) == IF outcome = "ok" THEN [success |-> TRUE] ELSE Failure("probe failed")

InitBaseline ==
    /\ ProbeIdle /\ MetricsIdle /\ CoordIdle /\ ConfigIdle /\ UnitsIdle
    /\ cli = "baseline"
    /\ entry \in {"main", "run"}
    /\ cpc = (IF entry = "main" THEN "main" ELSE "machine")
    /\ exit_code = NONE
    /\ stderr = {}
    /\ cfg_file \in (IF entry = "main" THEN {"missing", "malformed", "empty", "invalid", "valid"}
                     ELSE {"valid"})
    \* AzureBlobConfig declares no azcopy_benchmark_url; only an object that is
    \* not a schema Config can carry one
    /\ has_azcopy_attr \in (IF entry = "main" THEN {FALSE} ELSE BOOLEAN)
    /\ azcopy_url_set \in (IF has_azcopy_attr THEN BOOLEAN ELSE {FALSE})
    /\ nas_dir \in {"missing", "empty", "files"}
    /\ sas_count \in {0, 1}
    /\ results = InitResults
    /\ capacity_results = EmptyDict
    /\ ran = <<>>

\* an exception leaves run(): under main() the interpreter prints the traceback
\* and exits with code 1
RunRaises ==
    /\ stderr' = stderr \cup {"Traceback"}
    /\ IF entry = "main" THEN cpc' = "exit" /\ exit_code' = 1
       ELSE cpc' = "raised" /\ UNCHANGED exit_code

\* main, lines 809-817, and load_config (config_schema.py 145-154)
BaselineLoad ==
    /\ cli = "baseline" /\ cpc = "main"
    /\ IF cfg_file = "valid" THEN
            /\ cpc' = "machine"
            /\ UNCHANGED <<exit_code, stderr>>
       ELSE \* FileNotFoundError, yaml.YAMLError, ValueError, ValidationError
            /\ cpc' = "exit"
            /\ exit_code' = 1
            /\ stderr' = stderr \cup {"Traceback"}
    /\ UNCHANGED <<cli, entry, baselineVars, metricsVars, probeVars, coordVars, configVars, unitVars>>

\* run, line 655: collect_machine_specs (lines 55-144)
RunSpecs ==
    /\ cli = "baseline" /\ cpc = "machine"
    /\ \E ok \in BOOLEAN, net_if \in SUBSET Nics :
         IF ok THEN
            /\ ran' = Append(ran, "machine")
            /\ link_speed_mbps' = (IF MaxSpeed(net_if) > 0 THEN MaxSpeed(net_if)
                                   ELSE link_speed_mbps)
            /\ results' = [results EXCEPT !.machine = [nics |-> {n \in net_if : n.isup}]]
            /\ cpc' = "nas"
            /\ UNCHANGED <<exit_code, stderr>>
         ELSE
            /\ RunRaises
            /\ UNCHANGED <<ran, link_speed_mbps, results>>
    /\ UNCHANGED <<cli, entry, cfg_file, has_azcopy_attr, azcopy_url_set, nas_dir, sas_count,
                   capacity_results, metricsVars, probeLocals, coordVars, configVars, unitVars>>

\* the probe stopping run() when it reports a failure
RunNas_StopOnFailure ==
    /\ cli = "baseline" /\ cpc = "nas"
    /\ \E outcome \in ProbeOutcomes("nas") :
         /\ ran' = (IF nas_dir = "files" THEN Append(ran, "nas") ELSE ran)
         /\ results' = [results EXCEPT !.nas = [throughput |-> ProbeRecord(outcome)]]
         /\ cpc' = (IF outcome = "ok" THEN "azure_single" ELSE "returned")
    /\ UNCHANGED <<cli, entry, exit_code, stderr, cfg_file, has_azcopy_attr, azcopy_url_set,
                   nas_dir, sas_count, capacity_results, metricsVars, probeVars, coordVars, configVars, unitVars>>

\* run, lines 657-677: the NAS stage
RunNas ==
    /\ cli = "baseline" /\ cpc = "nas"
    /\ \E outcome \in ProbeOutcomes("nas") :
         LET rec == IF nas_dir = "missing" THEN Failure("Directory not found")
                    ELSE IF nas_dir = "empty" THEN Failure("No test files")
                    ELSE ProbeRecord(outcome)
         IN  /\ ran' = (IF nas_dir = "files" THEN Append(ran, "nas") ELSE ran)
             /\ results' = [results EXCEPT !.nas = [throughput |-> rec]]
             /\ cpc' = "azure_single"
    /\ UNCHANGED <<cli, entry, exit_code, stderr, cfg_file, has_azcopy_attr, azcopy_url_set,
                   nas_dir, sas_count, capacity_results, metricsVars, probeVars, coordVars, configVars, unitVars>>

\* run, lines 679-696: the single-threaded Azure stage
RunAzureSingle ==
    /\ cli = "baseline" /\ cpc = "azure_single"
    /\ \E outcome \in ProbeOutcomes("azure_single") :
         IF sas_count > 0 /\ outcome = "raise" THEN
            /\ ran' = Append(ran, "azure_single")
            /\ RunRaises
            /\ UNCHANGED results
         ELSE
            /\ ran' = (IF sas_count > 0 THEN Append(ran, "azure_single") ELSE ran)
            /\ results' = [results EXCEPT !.azure =
                              [throughput_single |-> IF sas_count > 0 THEN ProbeRecord(outcome)
                                                     ELSE Failure("No SAS URLs")]]
            /\ cpc' = "azure_parallel"
            /\ UNCHANGED <<exit_code, stderr>>
    /\ UNCHANGED <<cli, entry, cfg_file, has_azcopy_attr, azcopy_url_set, nas_dir, sas_count,
                   capacity_results, metricsVars, probeVars, coordVars, configVars, unitVars>>

\* run, lines 698-713: the parallel Azure stage
RunAzureParallel ==
    /\ cli = "baseline" /\ cpc = "azure_parallel"
    /\ \E outcome \in ProbeOutcomes("azure_parallel") :
         IF sas_count > 0 /\ outcome = "raise" THEN
            /\ ran' = Append(ran, "azure_parallel")
            /\ RunRaises
            /\ UNCHANGED capacity_results
         ELSE
            /\ ran' = (IF sas_count > 0 THEN Append(ran, "azure_parallel") ELSE ran)
            /\ capacity_results' =
                   [azure_parallel |-> IF sas_count > 0 THEN ProbeRecord(outcome)
                                       ELSE Failure("No SAS URLs")]
            /\ cpc' = "azcopy"
            /\ UNCHANGED <<exit_code, stderr>>
    /\ UNCHANGED <<cli, entry, cfg_file, has_azcopy_attr, azcopy_url_set, nas_dir, sas_count,
                   results, metricsVars, probeVars, coordVars, configVars, unitVars>>

\* run, lines 715-735: the azcopy stage, then results['capacity'] and return
RunAzcopy ==
    /\ cli = "baseline" /\ cpc = "azcopy"
    /\ \E outcome \in ProbeOutcomes("azcopy") :
         IF ~has_azcopy_attr THEN
            \* line 723: AttributeError
            /\ RunRaises
            /\ UNCHANGED <<ran, results, capacity_results>>
         ELSE IF azcopy_url_set /\ outcome = "raise" THEN
            /\ ran' = Append(ran, "azcopy")
            /\ RunRaises
            /\ UNCHANGED <<results, capacity_results>>
         ELSE
            /\ ran' = (IF azcopy_url_set THEN Append(ran, "azcopy") ELSE ran)
            /\ capacity_results' =
                   Merge(capacity_results,
                         [azcopy_bench |-> IF azcopy_url_set THEN ProbeRecord(outcome)
                                           ELSE Failure("No azcopy benchmark URL configured")])
            /\ results' = Merge(results, [capacity |-> capacity_results'])
            /\ cpc' = "returned"
            /\ UNCHANGED <<exit_code, stderr>>
    /\ UNCHANGED <<cli, entry, cfg_file, has_azcopy_attr, azcopy_url_set, nas_dir, sas_count,
                   metricsVars, probeVars, coordVars, configVars, unitVars>>

\* save_results (lines 737-806), called by main (lines 822-827) or by the caller
\* of run()
BaselineSave ==
    /\ cli = "baseline" /\ cpc = "returned"
    /\ \E ok \in BOOLEAN :
         /\ cpc' = (IF entry = "main" THEN "exit" ELSE IF ok THEN "saved" ELSE "raised")
         /\ exit_code' = (IF entry = "main" THEN (IF ok THEN 0 ELSE 1) ELSE exit_code)
         /\ stderr' = (IF ok THEN stderr ELSE stderr \cup {"Traceback"})
    /\ UNCHANGED <<cli, entry, baselineVars, metricsVars, probeVars, coordVars, configVars, unitVars>>

NextBaseline ==
    \/ BaselineLoad \/ RunSpecs \/ RunNas \/ RunAzureSingle \/ RunAzureParallel
    \/ RunAzcopy \/ BaselineSave

\* ------------------------------------------------------------ MetricsAgent
\* the clock of the metrics agent counts ticks of 1/OneSecond seconds
MaxClock == (MaxMetricsDuration + 1) * OneSecond

\* run, lines 215-223
fieldnames ==
    <<"ts", "pid", "cpu_pct", "rss_mb", "vms_mb",
      "read_bytes_s", "write_bytes_s", "read_cnt_s", "write_cnt_s",
      "sys_disk_read_mb_s", "sys_disk_write_mb_s",
      "sys_net_recv_mb_s", "sys_net_sent_mb_s",
      "gpu_util_pct", "gpu_mem_used_mb", "gpu_mem_total_mb",
      "fast_req_latency_ms", "fast_req_bytes", "fast_req_cache_hit",
      "open_zgy_paths">>

Range(s) == {s[i] : i \in DOMAIN s}

\* Python truthiness of an optional number or counter record
Truthy(v) == v # NONE /\ v # 0

\* what a psutil call on self.process does now
ProcessOutcome == IF alive THEN faults.access ELSE "NoSuchProcess"

\* what self.process.open_files() can do now
FilesOutcomes == IF ProcessOutcome = "ok" THEN {"ok", "zgy", "OSError"} ELSE {ProcessOutcome}

\* the reading of a cumulative byte counter at time t
CounterAt(t) == t * MB

\* psutil.net_io_counters() sums over the interfaces present: an interface
\* that has counted NicBytes disappears (unplugged, VPN closed) at RemovedAt
RemovedAt == 2
NicBytes == 8 * MB
NetCounterAt(t) ==
    IF faults.net = "nic_removed" /\ t < RemovedAt * OneSecond THEN CounterAt(t) + NicBytes
    ELSE CounterAt(t)

\* the CPU and memory keys with rss_mb and vms_mb forgotten in the handler
CpuMemFields_Partial ==
    IF ProcessOutcome = "ok"
    THEN [cpu_pct |-> Rat(25, 1), rss_mb |-> Rat(96 * MB, MB), vms_mb |-> Rat(160 * MB, MB)]
    ELSE [cpu_pct |-> RatZero]

\* collect_sample, lines 76-86
CpuMemFields ==
    IF ProcessOutcome = "ok"
    THEN [cpu_pct |-> Rat(25, 1), rss_mb |-> Rat(96 * MB, MB), vms_mb |-> Rat(160 * MB, MB)]
    ELSE [cpu_pct |-> RatZero, rss_mb |-> RatZero, vms_mb |-> RatZero]

\* collect_sample, lines 88-127: the four per-process rates (the four counters
\* of io_counters() advance together here); a counter record and a time.time()
\* value are truthy whenever they are not None
IoRate(t) ==
    IF platform = "win32" /\ ProcessOutcome = "ok" /\ prev_io # NONE /\ prev_time # NONE
       /\ t - prev_time > 0
    THEN Rat((CounterAt(t) - prev_io) * OneSecond, t - prev_time)
    ELSE RatZero

IoFields(t) ==
    [read_bytes_s |-> IoRate(t), write_bytes_s |-> IoRate(t),
     read_cnt_s |-> IoRate(t), write_cnt_s |-> IoRate(t)]

\* line 116: self.prev_io = io_counters
NextPrevIo(t) == IF platform = "win32" /\ ProcessOutcome = "ok" THEN CounterAt(t) ELSE prev_io

\* collect_sample, lines 129-140: zero on every path
DiskFields == [sys_disk_read_mb_s |-> RatZero, sys_disk_write_mb_s |-> RatZero]

\* collect_sample, lines 142-163 (both directions advance together here)
NetRate(t) ==
    IF faults.net # "error" /\ prev_net # NONE /\ prev_time # NONE /\ t - prev_time > 0
    THEN Rat((NetCounterAt(t) - prev_net) * OneSecond, (t - prev_time) * MB)
    ELSE RatZero

NetFields(t) == [sys_net_recv_mb_s |-> NetRate(t), sys_net_sent_mb_s |-> NetRate(t)]

\* lines 159-160: if net_io: self.prev_net = net_io
NextPrevNet(t) == IF faults.net # "error" THEN NetCounterAt(t) ELSE prev_net

\* collect_sample, lines 165-180
GpuFields ==
    IF gpu_initialized /\ faults.gpu = "ok"
    THEN [gpu_util_pct |-> Rat(40, 1), gpu_mem_used_mb |-> Rat(512 * MB, MB),
          gpu_mem_total_mb |-> Rat(1024 * MB, MB)]
    ELSE [gpu_util_pct |-> RatZero, gpu_mem_used_mb |-> RatZero,
          gpu_mem_total_mb |-> RatZero]

\* collect_sample, lines 182-185
FastFields == [fast_req_latency_ms |-> RatZero, fast_req_bytes |-> RatZero,
               fast_req_cache_hit |-> 0]

\* _get_open_zgy_paths, lines 193-205; any other exception of open_files() leaves it
OpenZgyPaths(files) == IF files = "zgy" THEN "a.zgy;b.zgy" ELSE ""

\* collect_sample, lines 63-191, called at time t: the sample it returns, or
\* the exception that leaves it, and the counters it keeps
CollectSample(files, t) ==
    LET s1 == Merge([ts |-> t, pid |-> Pid], CpuMemFields)
        s2 == Merge(s1, IoFields(t))
        s3 == Merge(s2, DiskFields)
        s4 == Merge(s3, NetFields(t))
        s5 == Merge(s4, GpuFields)
        s6 == Merge(s5, FastFields)
    IN  IF files = "OSError"
        THEN [kind |-> "Exception", sample |-> s6,
              prev_io |-> NextPrevIo(t), prev_net |-> NextPrevNet(t),
              prev_time |-> prev_time]
        ELSE [kind |-> "sample", sample |-> Merge(s6, [open_zgy_paths |-> OpenZgyPaths(files)]),
              prev_io |-> NextPrevIo(t), prev_net |-> NextPrevNet(t),
              prev_time |-> t]

\* the hosts: at most one of the metric sources fails
FaultScenarios ==
    {f \in [access : {"ok", "AccessDenied"}, net : {"ok", "error", "nic_removed"}, gpu : {"ok", "error"}] :
        Cardinality({k \in DOMAIN f : f[k] # "ok"}) <= 1}

\* the durations given on the command line: none, and 0 .. MaxMetricsDuration
Durations == {NONE} \cup 0..MaxMetricsDuration

\* collect_sample + writerow take at most one second, or longer
CollectTimes == {0} \cup {c \in 1..MaxCollect : c > OneSecond}

InitMetrics ==
    /\ ProbeIdle /\ BaselineIdle /\ CoordIdle /\ ConfigIdle /\ UnitsIdle
    /\ cli = "metrics"
    /\ entry = "main"
    /\ cpc = "main"
    /\ exit_code = NONE
    /\ stderr = {}
    /\ pid_given_exists \in BOOLEAN
    /\ alive = pid_given_exists
    /\ m_duration \in Durations
    /\ platform \in {"win32", "other"}
    /\ faults \in FaultScenarios
    /\ (platform # "win32" => faults.gpu = "ok")
    /\ gpu_initialized = FALSE
    /\ m_now = 0
    /\ m_start = 0
    /\ header = <<>>
    /\ rows = 0
    /\ sample = NoRet
    /\ prev_io = NONE
    /\ prev_net = NONE
    /\ prev_time = NONE

\* the monitored process terminates
ProcessExits ==
    /\ cli = "metrics" /\ alive /\ cpc \in {"main", "construct", "open", "loop"}
    /\ alive' = FALSE
    /\ UNCHANGED <<cli, entry, cpc, exit_code, stderr, baselineVars, pid_given_exists,
                   m_duration, platform, faults, gpu_initialized, m_now, m_start, header, rows,
                   sample, prev_io, prev_net, prev_time, probeVars, coordVars, configVars, unitVars>>

\* main without the check of the pid
MetricsMain_NoCheck ==
    /\ cli = "metrics" /\ cpc = "main"
    /\ cpc' = "construct"
    /\ UNCHANGED <<exit_code, stderr>>
    /\ UNCHANGED <<cli, entry, baselineVars, metricsVars, probeVars, coordVars, configVars, unitVars>>

\* main, lines 286-291
MetricsMain ==
    /\ cli = "metrics" /\ cpc = "main"
    /\ IF ~alive THEN
            /\ stderr' = stderr \cup {"does not exist"}
            /\ exit_code' = 1
            /\ cpc' = "exit"
       ELSE /\ cpc' = "construct"
            /\ UNCHANGED <<exit_code, stderr>>
    /\ UNCHANGED <<cli, entry, baselineVars, metricsVars, probeVars, coordVars, configVars, unitVars>>

\* main, line 293: MetricsAgent.__init__ (lines 35-61)
MetricsConstruct ==
    /\ cli = "metrics" /\ cpc = "construct"
    /\ IF ~alive THEN
            \* psutil.Process(pid) raises NoSuchProcess
            /\ stderr' = stderr \cup {"Traceback"}
            /\ exit_code' = 1
            /\ cpc' = "exit"
            /\ UNCHANGED gpu_initialized
       ELSE /\ gpu_initialized' \in (IF platform = "win32" THEN BOOLEAN ELSE {FALSE})
            /\ cpc' = "open"
            /\ UNCHANGED <<exit_code, stderr>>
    /\ UNCHANGED <<cli, entry, baselineVars, pid_given_exists, alive, m_duration, platform,
                   faults, m_now, m_start, header, rows, sample, prev_io, prev_net, prev_time,
                   probeVars, coordVars, configVars, unitVars>>

\* run, lines 225-235: the CSV file is opened and the header written
MetricsOpen ==
    /\ cli = "metrics" /\ cpc = "open"
    /\ \E ok \in BOOLEAN :
         IF ok THEN
            /\ m_start' = m_now
            /\ header' = fieldnames
            /\ cpc' = "loop"
            /\ UNCHANGED <<exit_code, stderr>>
         ELSE
            /\ stderr' = stderr \cup {"Traceback"}
            /\ exit_code' = 1
            /\ cpc' = "exit"
            /\ UNCHANGED <<m_start, header>>
    /\ UNCHANGED <<cli, entry, baselineVars, pid_given_exists, alive, m_duration, platform, faults,
                   gpu_initialized, m_now, rows, sample, prev_io, prev_net, prev_time,
                   probeVars, coordVars, configVars, unitVars>>

\* line 242: duration and (time.time() - start_time) >= duration
DurationReached == Truthy(m_duration) /\ m_now - m_start >= m_duration * OneSecond

\* run, lines 239-243: the duration limit is reached
MetricsStop ==
    /\ cli = "metrics" /\ cpc = "loop"
    /\ DurationReached
    /\ cpc' = "done"
    /\ UNCHANGED <<cli, entry, exit_code, stderr, baselineVars, metricsVars, probeVars,
                   coordVars, configVars, unitVars>>

\* run, lines 239-261: one iteration that samples; collect_sample and writerow
\* take c ticks, then the loop sleeps for what is left of one second
MetricsSample ==
    /\ cli = "metrics" /\ cpc = "loop"
    /\ ~DurationReached
    /\ m_now < MaxClock
    /\ \E files \in FilesOutcomes, c \in CollectTimes, write_ok \in BOOLEAN :
         LET r == CollectSample(files, m_now)
             sleep_time == Max(0, OneSecond - c)
         IN  /\ prev_io' = r.prev_io
             /\ prev_net' = r.prev_net
             /\ prev_time' = r.prev_time
             /\ IF r.kind = "NoSuchProcess" THEN
                    \* lines 251-253
                    /\ stderr' = stderr \cup {"no longer exists"}
                    /\ cpc' = "done"
                    /\ m_now' = m_now + c
                    /\ UNCHANGED <<rows, sample>>
                ELSE IF r.kind = "sample" /\ write_ok /\ DOMAIN r.sample \subseteq Range(header) THEN
                    \* lines 247-250
                    /\ sample' = r.sample
                    /\ rows' = rows + 1
                    /\ m_now' = m_now + c + sleep_time
                    /\ UNCHANGED <<cpc, stderr>>
                ELSE
                    \* lines 254-255
                    /\ stderr' = stderr \cup {"Error collecting sample"}
                    /\ sample' = (IF r.kind = "sample" THEN r.sample ELSE sample)
                    /\ m_now' = m_now + c + sleep_time
                    /\ UNCHANGED <<cpc, rows>>
    /\ UNCHANGED <<cli, entry, exit_code, baselineVars, pid_given_exists, alive, m_duration,
                   platform, faults, gpu_initialized, m_start, header, probeVars, coordVars, configVars, unitVars>>

\* run, lines 263-264: KeyboardInterrupt
MetricsInterrupt ==
    /\ cli = "metrics" /\ cpc = "loop"
    /\ stderr' = stderr \cup {"stopped by user"}
    /\ cpc' = "done"
    /\ UNCHANGED <<cli, entry, exit_code, baselineVars, metricsVars, probeVars, coordVars, configVars, unitVars>>

\* run, lines 266-267, and main, lines 297-298: the agent exits
MetricsExit ==
    /\ cli = "metrics" /\ cpc = "done"
    /\ exit_code' = 0
    /\ cpc' = "exit"
    /\ UNCHANGED <<cli, entry, stderr, baselineVars, metricsVars, probeVars, coordVars, configVars, unitVars>>

NextMetrics ==
    \/ ProcessExits \/ MetricsMain \/ MetricsConstruct \/ MetricsOpen
    \/ MetricsStop \/ MetricsSample \/ MetricsInterrupt \/ MetricsExit

\* ------------------------------------------------------- the two command lines
InitCli == InitBaseline \/ InitMetrics
NextCli == NextBaseline \/ NextMetrics
SpecCli == InitCli /\ [][NextCli]_vars

\* ------------------------------------------------- ui_attach: to_rel, to_abs
\* A float is kept as a numerator over FloatScale; a quotient that is not a
\* multiple of 1/FloatScale is rounded to one of its two neighbours.  A double
\* carries 53 bits against pixel coordinates below 2^31; here FloatScale
\* exceeds every width and height.

\* WindowRect.width, WindowRect.height (lines 27-35)
Width(r) == r.right - r.left
Height(r) == r.bottom - r.top

\* a / w as a float: the quotient rounded down or up
FloatDiv(a, w, up) ==
    IF up THEN -((-(a * FloatScale)) \div w) ELSE (a * FloatScale) \div w

\* int(v) of the float v = n / FloatScale: truncation towards zero
Trunc(n) == IF n >= 0 THEN n \div FloatScale ELSE -((-n) \div FloatScale)

\* to_rel, lines 130-144
to_rel(x, y, r, up_x, up_y) ==
    <<IF Width(r) > 0 THEN FloatDiv(x - r.left, Width(r), up_x) ELSE 0,
      IF Height(r) > 0 THEN FloatDiv(y - r.top, Height(r), up_y) ELSE 0>>

\* the offset of the window left out
to_abs_NoOffset(rel_x, rel_y, r) ==
    <<Trunc(rel_x * Width(r)), Trunc(rel_y * Height(r))>>

\* to_abs, lines 147-161
to_abs(rel_x, rel_y, r) ==
    <<Trunc(r.left * FloatScale + rel_x * Width(r)),
      Trunc(r.top * FloatScale + rel_y * Height(r))>>

Origins == (0 - MaxOrigin)..MaxOrigin
Sides == 0..MaxSide

InitCoords ==
    /\ ProbeIdle /\ CliIdle /\ ConfigIdle /\ UnitsIdle
    /\ kpc = "start"
    /\ rect \in {[left |-> l, top |-> t, right |-> l + w, bottom |-> t + h] :
                    l \in Origins, t \in Origins, w \in Sides, h \in Sides}
    /\ pt \in {<<x, y>> : x \in (rect.left - 1)..(rect.right + 1),
                          y \in (rect.top - 1)..(rect.bottom + 1)}
    /\ rel = NoRet
    /\ back = NoRet

\* rel = to_rel(x, y, rect)
ToRel ==
    /\ kpc = "start"
    /\ \E up_x \in BOOLEAN, up_y \in BOOLEAN :
         rel' = to_rel(pt[1], pt[2], rect, up_x, up_y)
    /\ kpc' = "rel"
    /\ UNCHANGED <<rect, pt, back, probeVars, cliVars, configVars, unitVars>>

\* back = to_abs(rel_x, rel_y, rect)
ToAbs ==
    /\ kpc = "rel"
    /\ back' = to_abs(rel[1], rel[2], rect)
    /\ kpc' = "abs"
    /\ UNCHANGED <<rect, pt, rel, probeVars, cliVars, configVars, unitVars>>

NextCoords == ToRel \/ ToAbs
SpecCoords == InitCoords /\ [][NextCoords]_vars

\* --------------------------------------------- config_schema: Config, load_config
\* A parsed YAML mapping is a function from its keys to its values; a Path
\* value is kept as what the file system holds there ("file", "dir",
\* "nonexistent", "no_parent"); a URL is kept as the sequence of its parts.
Has(d, k) == k \in DOMAIN d

\* the keys of d that the model class declares (the others are ignored)
Pick(d, keys) == [k \in DOMAIN d \cap keys |-> d[k]]

GoodUrl == <<"https://", "acct.", "blob.core.windows.net", "/c/file1.bin?sig=abc">>
HttpUrl == <<"http://", "acct.", "blob.core.windows.net", "/c/file1.bin">>
UpperUrl == <<"HTTPS://", "acct.", "blob.core.windows.net", "/c/file1.bin">>
OtherHostUrl == <<"https://", "example.com", "/file.bin">>
QueryUrl == <<"https://", "example.com", "/file.bin?host=", "blob.core.windows.net">>

\* url.startswith('https://')
StartsWithHttps(url) == url # <<>> /\ url[1] = "https://"

\* 'blob.core.windows.net' in url
ContainsBlobHost(url) == \E i \in DOMAIN url : url[i] = "blob.core.windows.net"

\* one entry of a ValidationError: the location of the field and the kind of error
Err(loc, type) == [loc |-> loc, type |-> type]

\* no required field reported
Missing_None(d, prefix, keys) == {}

\* Field(...): a required field that the input does not give
Missing(d, prefix, keys) ==
    {Err(prefix \o <<k>>, "missing") : k \in {r \in keys : ~Has(d, r)}}

\* Field(ge=lo), Field(le=hi)
Ge(d, prefix, k, lo) ==
    IF Has(d, k) /\ d[k] < lo THEN {Err(prefix \o <<k>>, "greater_than_equal")} ELSE {}
Le(d, prefix, k, hi) ==
    IF Has(d, k) /\ d[k] > hi THEN {Err(prefix \o <<k>>, "less_than_equal")} ELSE {}

\* a field_validator that raises ValueError unless the path is of the kinds given
PathIs(d, prefix, k, kinds) ==
    IF Has(d, k) /\ d[k] \notin kinds THEN {Err(prefix \o <<k>>, "value_error")} ELSE {}

\* only the scheme of the URLs is looked at
validate_urls_SchemeOnly(v) == \A i \in DOMAIN v : StartsWithHttps(v[i])

\* AzureBlobConfig.validate_urls, lines 49-58: TRUE when it returns v
validate_urls(v) == \A i \in DOMAIN v : StartsWithHttps(v[i]) /\ ContainsBlobHost(v[i])

UrlErrors(d, prefix, k) ==
    IF Has(d, k) /\ ~validate_urls(d[k]) THEN {Err(prefix \o <<k>>, "value_error")} ELSE {}

\* PetrelConfig, lines 9-22
PetrelErrors(d, prefix) ==
    Missing(d, prefix, {"exe_path"}) \cup PathIs(d, prefix, "exe_path", {"file"})
PetrelObj(d) ==
    Merge([project_arg_supported |-> TRUE], Pick(d, {"exe_path", "project_arg_supported"}))

\* PathsConfig, lines 25-38
PathsErrors(d, prefix) ==
    Missing(d, prefix, {"project_shared_zgy_local", "project_fast_vzgy_local"})
    \cup PathIs(d, prefix, "project_shared_zgy_local", {"file"})
    \cup PathIs(d, prefix, "project_fast_vzgy_local", {"file"})
PathsObj(d) == Pick(d, {"project_shared_zgy_local", "project_fast_vzgy_local"})

\* AzureBlobConfig, lines 41-58
AzureBlobErrors(d, prefix) ==
    Missing(d, prefix, {"account", "container"})
    \cup UrlErrors(d, prefix, "sas_download_urls")
    \cup UrlErrors(d, prefix, "sas_upload_urls")
AzureBlobObj(d) ==
    Merge([example_vds_prefix |-> NONE, sas_download_urls |-> <<>>, sas_upload_urls |-> <<>>],
          Pick(d, {"account", "container", "example_vds_prefix", "sas_download_urls",
                   "sas_upload_urls"}))

\* DataSourcesConfig, lines 61-65
DataSourcesErrors(d, prefix) ==
    Missing(d, prefix, {"shared_zgy_hint", "fast_vzgy_hint", "azure_blob"})
    \cup (IF Has(d, "azure_blob")
          THEN AzureBlobErrors(d.azure_blob, prefix \o <<"azure_blob">>) ELSE {})
DataSourcesObj(d) ==
    Merge(Pick(d, {"shared_zgy_hint", "fast_vzgy_hint"}),
          IF Has(d, "azure_blob") THEN [azure_blob |-> AzureBlobObj(d.azure_blob)]
          ELSE EmptyDict)

\* HotkeysConfig, lines 68-73
HotkeysObj(d) ==
    Merge([scrub_next_inline |-> "PGDN", attribute_compute |-> "%1",
           horizon_autotrack |-> "%2", export_slice |-> "%3"],
          Pick(d, {"scrub_next_inline", "attribute_compute", "horizon_autotrack",
                   "export_slice"}))

\* FastLogsConfig, lines 76-88
FastErrors(d, prefix) ==
    Missing(d, prefix, {"cache_dir"})
    \cup PathIs(d, prefix, "cache_dir", {"dir", "nonexistent"})
FastObj(d) == Merge([logs |-> <<>>], Pick(d, {"logs", "cache_dir"}))

\* DefaultsConfig, lines 91-95 (scrub_delay_sec in milliseconds)
DefaultsErrors(d, prefix) ==
    Ge(d, prefix, "scrub_count", 1) \cup Ge(d, prefix, "scrub_delay_sec", 0)
    \cup Ge(d, prefix, "horizon_run_seconds", 1)
DefaultsObj(d) ==
    Merge([scrub_count |-> 100, scrub_delay_sec |-> 40, horizon_run_seconds |-> 45],
          Pick(d, {"scrub_count", "scrub_delay_sec", "horizon_run_seconds"}))

\* BenchmarkConfig, lines 98-104
BenchmarkErrors(d, prefix) ==
    Missing(d, prefix, {"nas_test_dir", "nas_ping_host"})
    \cup Ge(d, prefix, "parallel_streams", 1) \cup Le(d, prefix, "parallel_streams", 16)
    \cup Ge(d, prefix, "http_chunk_bytes", 1024)
BenchmarkObj(d) ==
    Merge([azure_ping_hosts |-> <<>>, parallel_streams |-> 4, http_chunk_bytes |-> 8388608],
          Pick(d, {"nas_test_dir", "nas_ping_host", "azure_ping_hosts", "parallel_streams",
                   "http_chunk_bytes"}))

\* Config, lines 107-126: every error of every field, collected
ConfigErrors(d) ==
    Missing(d, <<>>, {"petrel", "paths", "data_sources", "fast", "out_dir", "benchmark"})
    \cup (IF Has(d, "petrel") THEN PetrelErrors(d.petrel, <<"petrel">>) ELSE {})
    \cup (IF Has(d, "paths") THEN PathsErrors(d.paths, <<"paths">>) ELSE {})
    \cup (IF Has(d, "data_sources")
          THEN DataSourcesErrors(d.data_sources, <<"data_sources">>) ELSE {})
    \cup (IF Has(d, "fast") THEN FastErrors(d.fast, <<"fast">>) ELSE {})
    \cup (IF Has(d, "defaults") THEN DefaultsErrors(d.defaults, <<"defaults">>) ELSE {})
    \cup PathIs(d, <<>>, "out_dir", {"dir", "nonexistent"})
    \cup (IF Has(d, "benchmark") THEN BenchmarkErrors(d.benchmark, <<"benchmark">>) ELSE {})

\* the Config object built from the fields given and the defaults
ConfigObj(d) ==
    LET section(k, obj) == IF Has(d, k) THEN [x \in {k} |-> obj] ELSE EmptyDict
    IN  Merge(Merge(Merge(section("petrel", IF Has(d, "petrel") THEN PetrelObj(d.petrel) ELSE EmptyDict),
                          section("paths", IF Has(d, "paths") THEN PathsObj(d.paths) ELSE EmptyDict)),
                    Merge(section("data_sources",
                                  IF Has(d, "data_sources") THEN DataSourcesObj(d.data_sources)
                                  ELSE EmptyDict),
                          section("fast", IF Has(d, "fast") THEN FastObj(d.fast) ELSE EmptyDict))),
              Merge(Merge([hotkeys |-> HotkeysObj(IF Has(d, "hotkeys") THEN d.hotkeys ELSE EmptyDict),
                           defaults |-> DefaultsObj(IF Has(d, "defaults") THEN d.defaults
                                                    ELSE EmptyDict)],
                          section("benchmark",
                                  IF Has(d, "benchmark") THEN BenchmarkObj(d.benchmark)
                                  ELSE EmptyDict)),
                    \* validate_out_dir creates a directory that does not exist
                    section("out_dir", "dir")))

\* an exception: its class, its message in parts, the entries of a ValidationError
Exc(class, message, errs) == [exception |-> class, message |-> message, errors |-> errs]

\* Config(**config_dict)
Config(d) ==
    IF ConfigErrors(d) = {} THEN [config |-> ConfigObj(d)]
    ELSE Exc("ValidationError", <<"validation errors for Config">>, ConfigErrors(d))

\* load_config, lines 129-154: what it raises or returns for a file of the
\* kind given, and whether yaml.safe_load was reached
load_config_NoEmptyCheck(file, d) ==
    CASE file = "missing" ->
            [parsed |-> FALSE,
             ret |-> Exc("FileNotFoundError", <<"Configuration file not found: ", "config.yaml">>, {})]
      [] file = "unreadable" ->
            [parsed |-> FALSE, ret |-> Exc("PermissionError", <<"Permission denied">>, {})]
      [] file = "malformed" ->
            [parsed |-> TRUE, ret |-> Exc("YAMLError", <<"could not parse">>, {})]
      [] file \in {"scalar", "empty"} ->
            [parsed |-> TRUE,
             ret |-> Exc("TypeError", <<"argument after ** must be a mapping">>, {})]
      [] OTHER -> [parsed |-> TRUE, ret |-> Config(d)]

load_config(file, d) ==
    CASE file = "missing" ->
            [parsed |-> FALSE,
             ret |-> Exc("FileNotFoundError", <<"Configuration file not found: ", "config.yaml">>, {})]
      [] file = "unreadable" ->
            [parsed |-> FALSE, ret |-> Exc("PermissionError", <<"Permission denied">>, {})]
      [] file = "malformed" ->
            [parsed |-> TRUE, ret |-> Exc("YAMLError", <<"could not parse">>, {})]
      [] file = "empty" ->
            [parsed |-> TRUE,
             ret |-> Exc("ValueError", <<"Configuration file is ", "empty", ": ", "config.yaml">>, {})]
      [] file = "scalar" ->
            [parsed |-> TRUE,
             ret |-> Exc("TypeError", <<"argument after ** must be a mapping">>, {})]
      [] OTHER -> [parsed |-> TRUE, ret |-> Config(d)]

\* a configuration that validates (tests/test_config.py, valid_config_dict)
ValidDoc ==
    [petrel |-> [exe_path |-> "file", project_arg_supported |-> TRUE],
     paths |-> [project_shared_zgy_local |-> "file", project_fast_vzgy_local |-> "file"],
     data_sources |->
        [shared_zgy_hint |-> "\\\\NAS01\\SEISMIC\\field.zgy",
         fast_vzgy_hint |-> "\\\\FAST\\field.zgy",
         azure_blob |-> [account |-> "testaccount", container |-> "testcontainer",
                         sas_download_urls |-> <<GoodUrl>>]],
     fast |-> [cache_dir |-> "dir"],
     defaults |-> [scrub_count |-> 100, scrub_delay_sec |-> 40, horizon_run_seconds |-> 45],
     out_dir |-> "dir",
     benchmark |-> [nas_test_dir |-> "\\\\NAS01\\BENCH", nas_ping_host |-> "nas01.example.com",
                    parallel_streams |-> 4, http_chunk_bytes |-> 8388608]]

\* the document without the key at the path
RECURSIVE RemoveAt(_, _)
RemoveAt(d, path) ==
    IF ~Has(d, Head(path)) THEN d
    ELSE IF Len(path) = 1 THEN [k \in DOMAIN d \ {Head(path)} |-> d[k]]
    ELSE Merge(d, [k \in {Head(path)} |-> RemoveAt(d[Head(path)], Tail(path))])

\* the document with the value at the path, where the enclosing mapping exists
RECURSIVE SetAt(_, _, _)
SetAt(d, path, v) ==
    IF Len(path) = 1 THEN Merge(d, [k \in {Head(path)} |-> v])
    ELSE IF ~Has(d, Head(path)) THEN d
    ELSE Merge(d, [k \in {Head(path)} |-> SetAt(d[Head(path)], Tail(path), v)])

Azure == <<"data_sources", "azure_blob">>

\* the ways a document is made to differ from ValidDoc
Removals ==
    <<<<"petrel">>, <<"petrel", "exe_path">>, <<"paths">>,
      <<"paths", "project_fast_vzgy_local">>, <<"data_sources">>,
      <<"data_sources", "shared_zgy_hint">>, <<"data_sources", "fast_vzgy_hint">>,
      Azure, Azure \o <<"account">>, Azure \o <<"container">>,
      Azure \o <<"sas_download_urls">>, <<"fast">>, <<"fast", "cache_dir">>,
      <<"defaults">>, <<"defaults", "scrub_count">>, <<"out_dir">>, <<"benchmark">>,
      <<"benchmark", "nas_test_dir">>, <<"benchmark", "nas_ping_host">>,
      <<"benchmark", "parallel_streams">>, <<"benchmark", "http_chunk_bytes">>>>

Settings ==
    <<[path |-> <<"benchmark", "parallel_streams">>, value |-> 0],
      [path |-> <<"benchmark", "parallel_streams">>, value |-> 1],
      [path |-> <<"benchmark", "parallel_streams">>, value |-> 16],
      [path |-> <<"benchmark", "parallel_streams">>, value |-> 17],
      [path |-> <<"benchmark", "http_chunk_bytes">>, value |-> 1023],
      [path |-> <<"benchmark", "http_chunk_bytes">>, value |-> 1024],
      [path |-> <<"defaults", "scrub_count">>, value |-> 0],
      [path |-> <<"defaults", "scrub_count">>, value |-> 1],
      [path |-> Azure \o <<"sas_download_urls">>, value |-> <<>>],
      [path |-> Azure \o <<"sas_download_urls">>, value |-> <<GoodUrl, HttpUrl>>],
      [path |-> Azure \o <<"sas_download_urls">>, value |-> <<OtherHostUrl>>],
      [path |-> Azure \o <<"sas_download_urls">>, value |-> <<QueryUrl>>],
      [path |-> Azure \o <<"sas_upload_urls">>, value |-> <<GoodUrl>>],
      [path |-> Azure \o <<"sas_upload_urls">>, value |-> <<UpperUrl>>],
      [path |-> Azure \o <<"azcopy_benchmark_url">>, value |-> GoodUrl],
      [path |-> <<"petrel", "exe_path">>, value |-> "nonexistent"],
      [path |-> <<"fast", "cache_dir">>, value |-> "no_parent"],
      [path |-> <<"out_dir">>, value |-> "nonexistent"],
      [path |-> <<"out_dir">>, value |-> "file"]>>

\* edit number i: 0 leaves the document as it is
Edit(d, i) ==
    IF i = 0 THEN d
    ELSE IF i <= Len(Removals) THEN RemoveAt(d, Removals[i])
    ELSE SetAt(d, Settings[i - Len(Removals)].path, Settings[i - Len(Removals)].value)

RECURSIVE Edited(_, _)
Edited(d, edits) == IF edits = <<>> THEN d ELSE Edited(Edit(d, Head(edits)), Tail(edits))

InitConfig ==
    /\ ProbeIdle /\ CliIdle /\ CoordIdle /\ UnitsIdle
    /\ lpc = "call"
    /\ loader \in {"load_config", "Config"}
    /\ config_path \in (IF loader = "load_config"
                        THEN {"missing", "unreadable", "malformed", "empty", "scalar", "document"}
                        ELSE {"document"})
    /\ \E edits \in [1..MaxEdits -> 0..(Len(Removals) + Len(Settings))] :
          config_dict = (IF config_path = "document" THEN Edited(ValidDoc, edits) ELSE EmptyDict)
    /\ parsed = FALSE
    /\ loaded = NoRet

\* load_config(config_path)
LoadConfig ==
    /\ lpc = "call" /\ loader = "load_config"
    /\ LET r == load_config(config_path, config_dict)
       IN  /\ parsed' = r.parsed
           /\ loaded' = r.ret
           /\ lpc' = (IF Has(r.ret, "config") THEN "returned" ELSE "raised")
    /\ UNCHANGED <<loader, config_path, config_dict, probeVars, cliVars, coordVars, unitVars>>

\* Config(**config_dict)
ConstructConfig ==
    /\ lpc = "call" /\ loader = "Config"
    /\ loaded' = Config(config_dict)
    /\ lpc' = (IF Has(loaded', "config") THEN "returned" ELSE "raised")
    /\ UNCHANGED <<loader, config_path, config_dict, parsed, probeVars, cliVars, coordVars, unitVars>>

NextConfig == LoadConfig \/ ConstructConfig
SpecConfig == InitConfig /\ [][NextConfig]_vars

\* ------------------------------------------------- the Range header of a GET
\* 100 * 1024 * 1024
RangeWindow == 100 * MB

\* the chunk sizes in MB that a caller may pass
RangeChunksMb == {1, DefaultChunkMb, 16}

\* lines 295-296 and 364-365: range_start and range_end for a chunk index
range(index, size) ==
    LET range_start == (index * size) % RangeWindow
    IN  [range_start |-> range_start, range_end |-> range_start + size - 1]

InitRange ==
    /\ ProbeIdle /\ CliIdle /\ CoordIdle /\ ConfigIdle /\ AttachIdle /\ FileIdle /\ IsoIdle
    /\ rpc = "call"
    /\ range_caller \in {"test_azure_throughput", "_download_chunk_worker"}
    /\ range_idx \in 0..MaxIndex
    /\ range_chunk_mb \in RangeChunksMb
    /\ range_hdr = NoRet

\* test_azure_throughput, lines 291-298: url_idx is incremented before it is used
SingleRange ==
    /\ rpc = "call" /\ range_caller = "test_azure_throughput"
    /\ range_hdr' = range(range_idx + 1, range_chunk_mb * MB)
    /\ rpc' = "done"
    /\ UNCHANGED <<range_caller, range_idx, range_chunk_mb, probeVars, cliVars, coordVars,
                   configVars, attachVars, fileVars, isoVars>>

\* _download_chunk_worker, lines 364-366, called with chunk_idx
WorkerRange ==
    /\ rpc = "call" /\ range_caller = "_download_chunk_worker"
    /\ range_hdr' = range(range_idx, range_chunk_mb * MB)
    /\ rpc' = "done"
    /\ UNCHANGED <<range_caller, range_idx, range_chunk_mb, probeVars, cliVars, coordVars,
                   configVars, attachVars, fileVars, isoVars>>

NextRange == SingleRange \/ WorkerRange
SpecRange == InitRange /\ [][NextRange]_vars

\* ------------------------------------------------------ ui_attach.attach_petrel
\* window titles, as the sequence of their parts
MainTitle == <<"Petrel", " 2023 - [Project]">>
PlatformTitle == <<"Petrel", " Platform">>
ExplorerTitle == <<"Petrel", " ", "File Explorer">>
OtherTitle == <<"Untitled - Notepad">>
Titles == {MainTitle, PlatformTitle, ExplorerTitle, OtherTitle}

\* "word" in title
InTitle(word, title) == \E i \in DOMAIN title : title[i] = word

\* every window with Petrel in its title qualifies
Qualifies_AnyPetrel(title) == InTitle("Petrel", title)

\* lines 71 and 93: "Petrel" in title and "File Explorer" not in title
Qualifies(title) == InTitle("Petrel", title) /\ ~InTitle("File Explorer", title)

\* what Application(...).connect(title_re=".*Petrel.*") and app.windows() give:
\* the titles of the windows of the application connected to ({} when connect
\* raises because no title matches)
WindowSets == {w \in SUBSET Titles : w = {} \/ \E t \in w : InTitle("Petrel", t)}

\* the seconds a connect attempt takes, and time.sleep(2)
ConnectTimes == {0, 2}
PollSleep == 2

AttachEnded == apc \in {"returned", "raised"}

InitAttach ==
    /\ ProbeIdle /\ CliIdle /\ CoordIdle /\ ConfigIdle /\ RangeIdle /\ FileIdle /\ IsoIdle
    /\ apc = "call"
    /\ sys_platform \in {"win32", "darwin"}
    /\ launch_if_not_found \in BOOLEAN
    /\ attach_timeout \in 0..MaxAttachTimeout
    /\ attach_now = 0
    /\ launches = 0
    /\ connects = 0
    /\ attached = NoRet

\* lines 58-83: the platform check, the first connect and the launch
AttachCall ==
    /\ apc = "call"
    /\ IF sys_platform # "win32" THEN
            /\ apc' = "raised"
            /\ attached' = [exception |-> "RuntimeError", message |-> "only supported on Windows"]
            /\ UNCHANGED <<attach_now, launches, connects>>
       ELSE \E windows \in WindowSets, dt \in ConnectTimes, popen_ok \in BOOLEAN :
            /\ connects' = connects + 1
            /\ attach_now' = attach_now + dt
            /\ IF \E t \in windows : Qualifies(t) THEN
                  /\ \E t \in windows : Qualifies(t) /\ attached' = [window |-> t]
                  /\ apc' = "returned"
                  /\ UNCHANGED launches
               ELSE IF ~launch_if_not_found THEN
                  /\ apc' = "wait"
                  /\ UNCHANGED <<launches, attached>>
               ELSE
                  /\ launches' = launches + 1
                  /\ IF popen_ok THEN apc' = "wait" /\ UNCHANGED attached
                     ELSE /\ apc' = "raised"
                          /\ attached' = [exception |-> "RuntimeError",
                                          message |-> "Failed to launch Petrel"]
    /\ UNCHANGED <<sys_platform, launch_if_not_found, attach_timeout, probeVars, cliVars,
                   coordVars, configVars, rangeVars, fileVars, isoVars>>

\* lines 87-100: one iteration of the wait loop
AttachPoll ==
    /\ apc = "wait"
    /\ attach_now < attach_timeout
    /\ \E windows \in WindowSets, dt \in ConnectTimes :
         /\ connects' = connects + 1
         /\ IF \E t \in windows : Qualifies(t) THEN
               /\ \E t \in windows : Qualifies(t) /\ attached' = [window |-> t]
               /\ apc' = "returned"
               /\ attach_now' = attach_now + dt
            ELSE
               /\ attach_now' = attach_now + dt + PollSleep
               /\ UNCHANGED <<apc, attached>>
    /\ UNCHANGED <<sys_platform, launch_if_not_found, attach_timeout, launches, probeVars,
                   cliVars, coordVars, configVars, rangeVars, fileVars, isoVars>>

\* line 102: the loop is over
AttachTimeout ==
    /\ apc = "wait"
    /\ attach_now >= attach_timeout
    /\ apc' = "raised"
    /\ attached' = [exception |-> "TimeoutError", message |-> "not found within timeout"]
    /\ UNCHANGED <<sys_platform, launch_if_not_found, attach_timeout, attach_now, launches,
                   connects, probeVars, cliVars, coordVars, configVars, rangeVars, fileVars, isoVars>>

NextAttach == AttachCall \/ AttachPoll \/ AttachTimeout
SpecAttach == InitAttach /\ [][NextAttach]_vars

\* ------------------------------------------------- utils.files.safe_write
\* a file that holds the first n characters of the content
Written(n) == [kind |-> "written", n |-> n]

\* no file, the file a call finds at path, the file it finds at temp_path
Absent == [kind |-> "absent", n |-> 0]
Previous == [kind |-> "previous", n |-> 0]
Leftover == [kind |-> "leftover", n |-> 0]

\* the handler leaving the temporary file where it is
Cleanup_KeepTemp(file, unlink_ok) == file

\* lines 29-30: the temporary file after the handler
Cleanup(file, unlink_ok) == IF file # Absent /\ unlink_ok THEN Absent ELSE file

InitFile ==
    /\ ProbeIdle /\ CliIdle /\ CoordIdle /\ ConfigIdle /\ RangeIdle /\ AttachIdle /\ IsoIdle
    /\ wpc \in {"json", "open"}
    /\ content_len \in 0..MaxContent
    /\ target \in {Absent, Previous}
    /\ target_before = target
    /\ temp \in {Absent, Leftover}
    /\ failed_at = ""
    /\ propagated = ""

\* safe_write_json, lines 43-44: json.dumps, then safe_write
JsonDumps ==
    /\ wpc = "json"
    /\ \E ok \in BOOLEAN :
         IF ok THEN wpc' = "open" /\ UNCHANGED <<failed_at, propagated>>
         ELSE wpc' = "raised" /\ failed_at' = "dumps" /\ propagated' = "dumps"
    /\ UNCHANGED <<content_len, target, target_before, temp, probeVars, cliVars, coordVars,
                   configVars, rangeVars, attachVars, isoVars>>

\* line 25: open(temp_path, 'w') creates or truncates the temporary file
OpenTemp ==
    /\ wpc = "open"
    /\ \E ok \in BOOLEAN :
         IF ok THEN /\ temp' = Written(0)
                    /\ wpc' = "write"
                    /\ UNCHANGED failed_at
         ELSE /\ wpc' = "except"
              /\ failed_at' = "open"
              /\ UNCHANGED temp
    /\ UNCHANGED <<content_len, target, target_before, propagated, probeVars, cliVars,
                   coordVars, configVars, rangeVars, attachVars, isoVars>>

\* lines 25-26: f.write(content) and the close at the end of the with block
\* put n characters into the file, all of them unless one of the two raises
WriteContent ==
    /\ wpc = "write"
    /\ \E n \in 0..content_len, ok \in BOOLEAN :
         /\ temp' = Written(n)
         /\ IF ok /\ n = content_len
            THEN wpc' = "replace" /\ UNCHANGED failed_at
            ELSE wpc' = "except" /\ failed_at' = "write"
    /\ UNCHANGED <<content_len, target, target_before, propagated, probeVars, cliVars,
                   coordVars, configVars, rangeVars, attachVars, isoVars>>

\* line 27: temp_path.replace(path)
ReplaceTarget ==
    /\ wpc = "replace"
    /\ \E ok \in BOOLEAN :
         IF ok THEN /\ target' = temp
                    /\ temp' = Absent
                    /\ wpc' = "returned"
                    /\ UNCHANGED failed_at
         ELSE /\ wpc' = "except"
              /\ failed_at' = "replace"
              /\ UNCHANGED <<target, temp>>
    /\ UNCHANGED <<content_len, target_before, propagated, probeVars, cliVars, coordVars,
                   configVars, rangeVars, attachVars, isoVars>>

\* lines 28-31: the handler removes the temporary file and raises again
WriteExcept ==
    /\ wpc = "except"
    /\ \E unlink_ok \in BOOLEAN :
         /\ temp' = Cleanup(temp, unlink_ok)
         /\ propagated' = (IF temp # Absent /\ ~unlink_ok THEN "unlink" ELSE failed_at)
    /\ wpc' = "raised"
    /\ UNCHANGED <<content_len, target, target_before, failed_at, probeVars, cliVars,
                   coordVars, configVars, rangeVars, attachVars, isoVars>>

NextFile == JsonDumps \/ OpenTemp \/ WriteContent \/ ReplaceTarget \/ WriteExcept
SpecFile == InitFile /\ [][NextFile]_vars

\* -------------------------------------------- utils.timeutil.parse_iso8601
\* The timestamps given: a date, with or without a time of day, the time with
\* or without microseconds and with or without a zone designator.  hour is
\* NONE for a date alone; wellformed is FALSE for a text that is no timestamp.
Months == {1, 12, 13}
Hours == {NONE, 10, 25}
Zones == {"", "Z", "+00:00", "+05:30", "-08:00", "+25:00"}

Timestamps ==
    {ts \in [wellformed : BOOLEAN, month : Months, hour : Hours, micro : BOOLEAN,
             zone : Zones] :
        /\ ts.hour = NONE => ~ts.micro /\ ts.zone = ""
        /\ ~ts.wellformed => ts.month = 1 /\ ts.hour = NONE}

\* the offset a zone designator stands for, in minutes
OffsetMinutes(zone) ==
    CASE zone = "+00:00" -> 0
      [] zone = "+05:30" -> 330
      [] zone = "-08:00" -> 0 - 480
      [] zone = "+25:00" -> 1500
      [] OTHER -> 0

\* lines 116-117: a trailing 'Z' becomes '+00:00'
ReplaceZ(ts) == IF ts.zone = "Z" THEN [ts EXCEPT !.zone = "+00:00"] ELSE ts

\* datetime.fromisoformat: ValueError ("") for a text it does not accept, a
\* naive datetime for a text without a designator, an aware one otherwise
Invalid(ts) ==
    \/ ~ts.wellformed
    \/ ts.month \notin 1..12
    \/ ts.hour # NONE /\ ts.hour \notin 0..23
    \/ ts.zone = "Z"
    \/ ts.zone # "" /\ Abs(OffsetMinutes(ts.zone)) >= 24 * 60

fromisoformat(ts) ==
    [month |-> ts.month, hour |-> IF ts.hour = NONE THEN 0 ELSE ts.hour,
     micro |-> ts.micro, aware |-> ts.zone # "", offset |-> OffsetMinutes(ts.zone)]

\* line 125: dt.replace(tzinfo=timezone.utc)
AssumeUtc(dt) == [dt EXCEPT !.aware = TRUE, !.offset = 0]

InitIso ==
    /\ ProbeIdle /\ CliIdle /\ CoordIdle /\ ConfigIdle /\ RangeIdle /\ AttachIdle /\ FileIdle
    /\ ipc = "call"
    /\ timestamp \in Timestamps
    /\ iso_result = NONE
    /\ iso_raised = ""

\* parse_iso8601, lines 115-125: the try returns whatever fromisoformat
\* returns; the handler runs only after a ValueError and parses the same text
\* again, which raises the same ValueError
ParseIso ==
    /\ ipc = "call"
    /\ LET text == ReplaceZ(timestamp) IN
         IF ~Invalid(text)
         THEN /\ iso_result' = fromisoformat(text)
              /\ ipc' = "returned"
              /\ UNCHANGED iso_raised
         ELSE IF ~Invalid(text)
         THEN /\ iso_result' = AssumeUtc(fromisoformat(text))
              /\ ipc' = "returned"
              /\ UNCHANGED iso_raised
         ELSE /\ iso_raised' = "ValueError"
              /\ ipc' = "raised"
              /\ UNCHANGED iso_result
    /\ UNCHANGED <<timestamp, probeVars, cliVars, coordVars, configVars, rangeVars,
                   attachVars, fileVars>>

NextIso == ParseIso
SpecIso == InitIso /\ [][NextIso]_vars

\* ==================================================================
\* Properties
\* ==================================================================
\* a failure record: success = false and an error message, nothing else
IsFailureRecord(r) == DOMAIN r = {"success", "error"} /\ r.success = FALSE

\* C1: no exception leaves a probe operation, and a probe one of whose chunk
\* reads, requests or subprocess runs raised returns a failure record.
C1_ProbeNeverRaises ==
    /\ ppc # "raised"
    /\ (ppc = "ret" /\ errors > 0) => IsFailureRecord(ret)

TimesMs == {chunk_times[i] * 1000 : i \in DOMAIN chunk_times}
CountAtMost(v) == Cardinality({i \in DOMAIN chunk_times : chunk_times[i] * 1000 <= v})
CountBelow(v) == Cardinality({i \in DOMAIN chunk_times : chunk_times[i] * 1000 < v})
Reported == ppc = "ret" /\ ret.success

\* C4: for a non-empty collection of n chunk times, the reported p95 is at
\* least as large as floor(0.95 n) + 1 of the collected values (itself and all
\* those at a lower sorted index) and at most the maximum; the same for p99 with
\* floor(0.99 n); and p95 <= p99.
C4_PercentileBounds ==
    (Reported /\ chunk_times # <<>>) =>
        LET n == Len(chunk_times)
            p95 == ret.chunk_time_p95_ms
            p99 == ret.chunk_time_p99_ms
        IN  /\ CountAtMost(p95) >= (95 * n) \div 100 + 1
            /\ CountAtMost(p99) >= (99 * n) \div 100 + 1
            /\ \E v \in TimesMs : p95 <= v
            /\ \E v \in TimesMs : p99 <= v
            /\ p95 <= p99

\* more than 100 chunk times with both percentiles below the maximum
C4_Witness ==
    /\ Reported /\ Len(chunk_times) > 100
    /\ ret.chunk_time_p95_ms < ret.chunk_time_p99_ms
    /\ \E v \in TimesMs : ret.chunk_time_p95_ms < v

\* C5: with n >= 1 chunk times the reported p95 (p99) is the element at
\* 0-based index floor(0.95 n) (floor(0.99 n)) of the ascending order, an index
\* below n; with n = 0 both are reported as 0.
C5_PercentileIndex ==
    Reported =>
        LET n == Len(chunk_times)
            p95 == ret.chunk_time_p95_ms
            p99 == ret.chunk_time_p99_ms
            i95 == (95 * n) \div 100
            i99 == (99 * n) \div 100
        IN  IF n = 0 THEN p95 = 0 /\ p99 = 0
            ELSE /\ i95 < n /\ i99 < n
                 /\ p95 \in TimesMs /\ p99 \in TimesMs
                 /\ CountBelow(p95) <= i95 /\ i95 < CountAtMost(p95)
                 /\ CountBelow(p99) <= i99 /\ i99 < CountAtMost(p99)
                 /\ ret.chunk_count = n

\* both cases of C5: no chunk time at all, and percentiles that differ
C5_WitnessEmpty == Reported /\ chunk_times = <<>> /\ probe = "nas"

C5_Witness ==
    /\ Reported /\ Len(chunk_times) >= 21
    /\ ret.chunk_time_p95_ms = 1000 /\ ret.chunk_time_p99_ms = 2000
\* the position of a stage in the order of run()
StageIndex(name) == CHOOSE i \in DOMAIN Stages : Stages[i] = name
InStageOrder(seq) ==
    \A i, j \in DOMAIN seq : i < j => StageIndex(seq[i]) < StageIndex(seq[j])

\* run() has returned: results['capacity'] is its last assignment
RunReturned == cli = "baseline" /\ "capacity" \in DOMAIN results

\* d gained the key k in this step, holding a failure record
StoredFailure(d, dNext, k) ==
    k \notin DOMAIN d /\ k \in DOMAIN dNext /\ ~dNext[k].success

\* C3: run() executes the probes in the order machine specs, NAS, single
\* Azure, parallel Azure, azcopy; a stage that stores a failure record is
\* followed by the next stage; and when run() has returned, every configured
\* probe has run and nas.throughput, azure.throughput_single,
\* capacity.azure_parallel and capacity.azcopy_bench each hold a record with a
\* success field.
C3_RunOrder ==
    /\ [](cli = "baseline" => InStageOrder(ran))
    /\ [](RunReturned =>
            /\ "success" \in DOMAIN results.nas.throughput
            /\ "success" \in DOMAIN results.azure.throughput_single
            /\ "success" \in DOMAIN results.capacity.azure_parallel
            /\ "success" \in DOMAIN results.capacity.azcopy_bench
            /\ "machine" \in Range(ran)
            /\ (nas_dir = "files" => "nas" \in Range(ran))
            /\ (sas_count > 0 => {"azure_single", "azure_parallel"} \subseteq Range(ran))
            /\ (azcopy_url_set => "azcopy" \in Range(ran)))
    /\ [][/\ (StoredFailure(results.nas, results'.nas, "throughput")
                => cpc' = "azure_single")
          /\ (StoredFailure(results.azure, results'.azure, "throughput_single")
                => cpc' = "azure_parallel")
          /\ (StoredFailure(capacity_results, capacity_results', "azure_parallel")
                => cpc' = "azcopy")
          /\ (StoredFailure(capacity_results, capacity_results', "azcopy_bench")
                => cpc' = "returned")]_vars

\* run() returned after the NAS probe and the single-threaded Azure probe had
\* both run and failed, and the later probes ran
C3_Witness ==
    /\ RunReturned
    /\ {"nas", "azure_single", "azure_parallel", "azcopy"} \subseteq Range(ran)
    /\ ~results.nas.throughput.success
    /\ ~results.azure.throughput_single.success
    /\ results.capacity.azure_parallel.success

\* a metrics run with a duration that ended by itself, with no sample lost
UndisturbedRun ==
    /\ cli = "metrics" /\ cpc \in {"done", "exit"} /\ header # <<>>
    /\ alive
    /\ m_duration # NONE /\ m_duration >= 1
    /\ "stopped by user" \notin stderr
    /\ "Error collecting sample" \notin stderr

\* C6: a run with duration D >= 1 whose target stays alive writes the header
\* and between D-1 and D+1 sample rows, and stops.
C6_RowsWithinOne ==
    UndisturbedRun =>
        /\ header = fieldnames
        /\ m_duration - 1 <= rows
        /\ rows <= m_duration + 1

\* C7: an iteration of the sampling loop that finds the monitored process gone
\* ends the loop, and writes no row.
C7_StopsWhenProcessGone ==
    [][(cli = "metrics" /\ cpc = "loop" /\ ~alive) => (cpc' = "done" /\ rows' = rows)]_vars

\* the 20 columns of the metrics CSV
Columns ==
    <<"ts", "pid", "cpu_pct", "rss_mb", "vms_mb", "read_bytes_s", "write_bytes_s",
      "read_cnt_s", "write_cnt_s", "sys_disk_read_mb_s", "sys_disk_write_mb_s",
      "sys_net_recv_mb_s", "sys_net_sent_mb_s", "gpu_util_pct", "gpu_mem_used_mb",
      "gpu_mem_total_mb", "fast_req_latency_ms", "fast_req_bytes", "fast_req_cache_hit",
      "open_zgy_paths">>

\* C8: the header, once written, is the 20 columns in their order, no row
\* precedes it, and every sample collect_sample has returned has exactly those
\* 20 keys.
C8_FixedSchema ==
    cli = "metrics" =>
        /\ Len(Columns) = 20
        /\ (header # <<>> => header = Columns)
        /\ (rows > 0 => header # <<>>)
        /\ ("ts" \in DOMAIN sample => DOMAIN sample = Range(Columns))

\* a sample collected after the process had gone, on a host without network
\* counters
C8_Witness ==
    /\ cli = "metrics" /\ rows > 0 /\ "ts" \in DOMAIN sample
    /\ ~alive /\ faults.net = "error"
    /\ sample.cpu_pct = RatZero

\* C9: given a pid that does not exist, the metrics agent never reaches the
\* sampling loop, writes no header and no row, and exits with a non-zero code
\* and 'does not exist' on stderr; given a config file that is missing or does
\* not validate, the baseline probe runs no stage and exits with a non-zero code.
C9_CliRejects ==
    /\ (cli = "metrics" /\ ~pid_given_exists) =>
            /\ cpc \in {"main", "exit"}
            /\ header = <<>> /\ rows = 0 /\ "ts" \notin DOMAIN sample
            /\ (cpc = "exit" => exit_code \notin {NONE, 0} /\ "does not exist" \in stderr)
    /\ (cli = "baseline" /\ entry = "main" /\ cfg_file # "valid") =>
            /\ cpc \in {"main", "exit"}
            /\ ran = <<>>
            /\ (cpc = "exit" => exit_code \notin {NONE, 0})

\* the metrics agent has exited on a pid that does not exist
C9_Witness == cli = "metrics" /\ ~pid_given_exists /\ cpc = "exit"

\* the baseline probe has exited on a config file that does not validate
C9_WitnessConfig == cli = "baseline" /\ entry = "main" /\ cfg_file = "invalid" /\ cpc = "exit"

\* the point lies inside a rectangle of positive width and height
InsideWindow ==
    /\ Width(rect) > 0 /\ Height(rect) > 0
    /\ rect.left <= pt[1] /\ pt[1] <= rect.right
    /\ rect.top <= pt[2] /\ pt[2] <= rect.bottom

\* C10: for a rectangle of positive width and height and a point inside it,
\* to_abs(to_rel(x, y, rect), rect) differs from (x, y) by at most 1 in x and
\* in y.
C10_RoundTripWithinOne ==
    (kpc = "abs" /\ InsideWindow) =>
        /\ Abs(back[1] - pt[1]) <= 1
        /\ Abs(back[2] - pt[2]) <= 1

\* a round trip that moved the point by one pixel in x and in y
C10_Witness ==
    /\ kpc = "abs" /\ InsideWindow
    /\ back[1] = pt[1] - 1
    /\ back[2] = pt[2] + 1

\* the bytes a successful result reports: bytes_read, or bytes_transferred for
\* the azcopy benchmark
BytesOf(r) == IF "bytes_read" \in DOMAIN r THEN r.bytes_read ELSE r.bytes_transferred

\* C11: in every successful result the elapsed time is positive,
\* throughput_mbs * 2^20 * elapsed = bytes, throughput_mbs > 0 when bytes > 0,
\* and throughput_mbs = 0 exactly when bytes = 0; for the three throughput
\* probes the bytes reported are the bytes the probe has read.
C11_ThroughputFromBytes ==
    Reported =>
        LET t == ret.throughput_mbs
            bytes == BytesOf(ret)
            elapsed == ret.duration_sec
        IN  /\ elapsed > 0 /\ elapsed = now - start_time
            /\ t[2] > 0
            /\ t[1] * MB * elapsed = bytes * t[2]
            /\ (bytes > 0 => t[1] > 0)
            /\ (t[1] = 0 <=> bytes = 0)
            /\ (probe # "azcopy" => bytes = bytes_read)

\* the parallel probe succeeded after it had read data
C11_Witness ==
    /\ Reported /\ probe = "parallel" /\ bytes_read > 0
    /\ ret.throughput_mbs[1] > 0

\* a probe succeeded without having read anything
C11_WitnessZero ==
    Reported /\ probe = "nas" /\ bytes_read = 0 /\ ret.throughput_mbs = RatZero

\* the key at the path is given in the document
RECURSIVE Present(_, _)
Present(d, path) ==
    /\ Has(d, Head(path))
    /\ (Len(path) = 1 \/ Present(d[Head(path)], Tail(path)))

\* the value at a path that is present
RECURSIVE Lookup(_, _)
Lookup(d, path) == IF Len(path) = 1 THEN d[Head(path)] ELSE Lookup(d[Head(path)], Tail(path))

\* the enclosing mapping of the path is given and the key itself is not
Omitted(d, path) ==
    /\ (Len(path) = 1 \/ Present(d, SubSeq(path, 1, Len(path) - 1)))
    /\ ~Present(d, path)

RequiredFields ==
    {<<"petrel">>, <<"petrel", "exe_path">>,
     <<"paths">>, <<"paths", "project_shared_zgy_local">>,
     <<"paths", "project_fast_vzgy_local">>,
     <<"data_sources">>, <<"data_sources", "shared_zgy_hint">>,
     <<"data_sources", "fast_vzgy_hint">>, <<"data_sources", "azure_blob">>,
     <<"data_sources", "azure_blob", "account">>,
     <<"data_sources", "azure_blob", "container">>,
     <<"fast">>, <<"fast", "cache_dir">>, <<"out_dir">>,
     <<"benchmark">>, <<"benchmark", "nas_test_dir">>, <<"benchmark", "nas_ping_host">>}

ConfigDone == lpc \in {"returned", "raised"} /\ config_path = "document"

\* C12: constructing or loading a configuration in which a required field is
\* missing (its enclosing section being given) raises a validation error that
\* names the missing field, and no Config object is produced; a Config that
\* is produced holds every required field.
C12_MissingFieldRejected ==
    ConfigDone =>
        /\ \A path \in RequiredFields :
              Omitted(config_dict, path) =>
                  /\ lpc = "raised"
                  /\ loaded.exception = "ValidationError"
                  /\ [loc |-> path, type |-> "missing"] \in loaded.errors
                  /\ ~Has(loaded, "config")
        /\ lpc = "returned" => \A path \in RequiredFields : Present(loaded.config, path)

C12_Witness ==
    /\ ConfigDone /\ loader = "load_config"
    /\ Omitted(config_dict, <<"data_sources", "azure_blob", "account">>)
    /\ Omitted(config_dict, <<"petrel">>)
    /\ lpc = "raised"

\* the URL has the scheme and the host that a SAS URL must have
IsSasUrl(url) ==
    /\ Len(url) > 0 /\ url[1] = "https://"
    /\ "blob.core.windows.net" \in Range(url)

\* the constraints on values, for the fields that the mapping gives
ValuesOk(d) ==
    /\ Present(d, <<"benchmark", "parallel_streams">>) => d.benchmark.parallel_streams \in 1..16
    /\ Present(d, <<"benchmark", "http_chunk_bytes">>) => d.benchmark.http_chunk_bytes >= 1024
    /\ Present(d, <<"defaults", "scrub_count">>) => d.defaults.scrub_count >= 1
    /\ \A k \in {"sas_download_urls", "sas_upload_urls"} :
          Present(d, <<"data_sources", "azure_blob", k>>) =>
              \A url \in Range(d.data_sources.azure_blob[k]) : IsSasUrl(url)

\* the checks of the file system that the path validators make
PathsOk(d) ==
    /\ Present(d, <<"petrel", "exe_path">>) => d.petrel.exe_path = "file"
    /\ Present(d, <<"fast", "cache_dir">>) => d.fast.cache_dir # "no_parent"
    /\ Present(d, <<"out_dir">>) => d.out_dir # "file"

SchemaOk(d) ==
    /\ \A path \in RequiredFields : Present(d, path)
    /\ ValuesOk(d)
    /\ PathsOk(d)

\* C13: load_config raises FileNotFoundError, before anything is parsed, when
\* the path does not exist; raises a ValueError whose message says 'empty'
\* when the YAML document is empty; and otherwise returns a Config only if
\* the document passes schema validation.
C13_LoadConfigOutcomes ==
    (loader = "load_config" /\ lpc # "call") =>
        /\ config_path = "missing" =>
              lpc = "raised" /\ loaded.exception = "FileNotFoundError" /\ ~parsed
        /\ config_path = "empty" =>
              /\ lpc = "raised" /\ loaded.exception = "ValueError"
              /\ "empty" \in Range(loaded.message)
        /\ lpc = "returned" =>
              config_path = "document" /\ parsed /\ SchemaOk(config_dict)
        /\ (config_path = "document" /\ SchemaOk(config_dict)) => lpc = "returned"

C13_Witness ==
    /\ loader = "load_config" /\ config_path = "empty" /\ lpc = "raised" /\ parsed

C13_WitnessReturned ==
    /\ loader = "load_config" /\ lpc = "returned" /\ config_dict # ValidDoc

\* C14: every accepted Config has parallel_streams in 1..16, http_chunk_bytes
\* of at least 1024, defaults.scrub_count of at least 1 and only SAS URLs that
\* start with 'https://' and contain 'blob.core.windows.net'; an input that
\* violates any of these raises a validation error.
C14_AcceptedConfigInRange ==
    ConfigDone =>
        /\ lpc = "returned" =>
              /\ ValuesOk(loaded.config)
              /\ Present(loaded.config, <<"benchmark", "parallel_streams">>)
              /\ Present(loaded.config, <<"benchmark", "http_chunk_bytes">>)
              /\ Present(loaded.config, <<"defaults", "scrub_count">>)
              /\ Present(loaded.config, <<"data_sources", "azure_blob", "sas_download_urls">>)
              /\ Present(loaded.config, <<"data_sources", "azure_blob", "sas_upload_urls">>)
        /\ ~ValuesOk(config_dict) =>
              lpc = "raised" /\ loaded.exception = "ValidationError"

C14_Witness ==
    /\ ConfigDone /\ lpc = "returned"
    /\ loaded.config.benchmark.parallel_streams = 16
    /\ loaded.config.benchmark.http_chunk_bytes = 1024

C14_WitnessRejected ==
    /\ ConfigDone /\ lpc = "raised"
    /\ \A path \in RequiredFields : Present(config_dict, path)
    /\ PathsOk(config_dict)
    /\ Lookup(config_dict, <<"data_sources", "azure_blob", "sas_download_urls">>)
          = <<OtherHostUrl>>

NumericColumns ==
    {"cpu_pct", "rss_mb", "vms_mb", "read_bytes_s", "write_bytes_s", "read_cnt_s",
     "write_cnt_s", "sys_net_recv_mb_s", "sys_net_sent_mb_s",
     "gpu_util_pct", "gpu_mem_used_mb", "gpu_mem_total_mb"}

\* C15: every metrics sample row has non-negative values in all its numeric
\* columns, whatever the OS counters read between consecutive samples.
C15_NonNegativeRows ==
    (cli = "metrics" /\ sample # NoRet) =>
        \A k \in NumericColumns \cap DOMAIN sample : sample[k][1] >= 0 /\ sample[k][2] > 0

\* rows with rates computed from two readings of advancing counters
C15_WitnessRates ==
    /\ cli = "metrics" /\ sample # NoRet /\ rows >= 2
    /\ sample.sys_net_recv_mb_s[1] > 0 /\ sample.read_bytes_s[1] > 0

\* a / b = c / d, for fractions with positive denominators
RatEq(x, y) == x[1] * y[2] = y[1] * x[2]

\* the rate in Mbps of a rate in MB/s
Mbps(mbs) == Rat(mbs[1] * 8, mbs[2])

\* value as a percentage of the link speed
PctOfLink(mbps, speed) == Rat(mbps[1] * 100, mbps[2] * speed)

\* the rate at which the host received bytes during the call, in MB/s
HostRate == Rat(host.recv, MB * ret.duration_sec)

SpeedDetected == link_speed_mbps # NONE /\ link_speed_mbps > 0

\* C16 as stated: the link utilization reported is the observed receive rate
\* of the host in Mbps as a percentage of the detected link speed, and 0 when
\* no positive link speed was detected.
C16_UtilizationFromHostRate ==
    Reported =>
        IF SpeedDetected
        THEN RatEq(ret.link_utilization_pct, PctOfLink(Mbps(HostRate), link_speed_mbps))
        ELSE ret.link_utilization_pct = RatZero

\* C16: the link utilization reported is the reported network bandwidth in
\* Mbps as a percentage of the detected link speed, and 0 when no positive
\* link speed was detected; the bandwidth is the observed receive rate of the
\* host when its counters could be read at the start and at the end of the
\* call, and otherwise (in the NAS probe only) the throughput of the probe.
C16_UtilizationFromBandwidth ==
    Reported =>
        LET bandwidth == IF host.read THEN HostRate ELSE ret.throughput_mbs
        IN  /\ host.read \/ probe = "nas"
            /\ RatEq(ret.network_bandwidth_mbs, bandwidth)
            /\ RatEq(ret.network_bandwidth_mbps, Mbps(bandwidth))
            /\ IF SpeedDetected
               THEN RatEq(ret.link_utilization_pct, PctOfLink(Mbps(bandwidth), link_speed_mbps))
               ELSE ret.link_utilization_pct = RatZero

C16_Witness ==
    /\ Reported /\ SpeedDetected /\ probe = "parallel"
    /\ host.read /\ host.recv > 0
    /\ ret.link_utilization_pct[1] > 0

C16_WitnessFallback ==
    /\ Reported /\ SpeedDetected /\ probe = "nas"
    /\ ~host.read /\ host.recv = 0
    /\ ret.link_utilization_pct[1] > 0

C16_WitnessNoSpeed ==
    /\ Reported /\ ~SpeedDetected /\ host.read /\ host.recv > 0

\* C17: on a successful azcopy benchmark, files_transferred is the number of
\* files that azcopy reports as completed, which may be smaller than
\* num_files_requested.
C17_FilesTransferredAsReported ==
    (Reported /\ probe = "azcopy") =>
        /\ ret.files_transferred = host.completed
        /\ ret.files_transferred <= ret.num_files_requested

AzcopyEnded == probe = "azcopy" /\ ppc \in {"ret", "raised"}

\* C18: when azcopy is not installed the call returns a failure record whose
\* error says 'not installed' and no benchmark subprocess has been run; when
\* the benchmark subprocess exits with a non-zero code or times out, the call
\* returns a failure record, never a success record.
C18_AzcopyFailures ==
    AzcopyEnded =>
        /\ host.azcopy = "not_found" =>
              /\ ppc = "ret" /\ IsFailureRecord(ret)
              /\ ret.error = "azcopy not installed"
              /\ requests = 0
        /\ host.azcopy \in {"exit1", "timeout"} =>
              /\ ppc = "ret" /\ IsFailureRecord(ret)
              /\ requests = 1

C18_Witness ==
    /\ AzcopyEnded /\ host.azcopy = "exit1" /\ host.read /\ now > start_time

C18_WitnessNotInstalled == AzcopyEnded /\ host.azcopy = "not_found" /\ ppc = "ret"

C18_WitnessTimeout == AzcopyEnded /\ host.azcopy = "timeout" /\ ppc = "ret"

\* C19: in the parallel Azure probe the number of requests submitted to the
\* pool and not yet harvested never exceeds the worker count, so at most that
\* many requests are in flight at once.
C19_PendingWithinWorkers ==
    probe = "parallel" =>
        /\ Cardinality(futures) <= workers
        /\ Cardinality({f \in futures : f.st = "running"}) <= workers

C19_Witness ==
    /\ probe = "parallel" /\ workers = MaxWorkers
    /\ Cardinality(futures) = workers
    /\ \A f \in futures : f.st = "running"
    /\ bytes_read > 0

RECURSIVE SumBytes(_)
SumBytes(q) == IF q = <<>> THEN 0 ELSE Head(q).bytes + SumBytes(Tail(q))

\* what was added is what one worker call returned
Completion(a) == [idx |-> a.idx, bytes |-> a.bytes, elapsed |-> a.elapsed]

\* a worker call ends in this step
WorkerEnds ==
    \E f \in futures : f.st = "running" /\ f \notin futures'

\* C20: the worker threads do not touch bytes_read and the list of chunk
\* times; the coordinating thread adds each request that completed without
\* an exception at most once, in the harvesting loop or in the final drain,
\* and exactly once when the probe returns success, in whatever order the
\* requests complete.
C20_AddedExactlyOnce ==
    /\ [][WorkerEnds => UNCHANGED <<bytes_read, chunk_times, additions>>]_vars
    /\ [](probe = "parallel" =>
            /\ \A i, j \in DOMAIN additions : additions[i].idx = additions[j].idx => i = j
            /\ \A i \in DOMAIN additions : Completion(additions[i]) \in completions
            /\ bytes_read = SumBytes(additions)
            /\ chunk_times = [i \in DOMAIN additions |-> additions[i].elapsed]
            /\ Reported =>
                  /\ \A c \in completions : \E i \in DOMAIN additions : Completion(additions[i]) = c
                  /\ Len(additions) = requests - errors)

\* a success with additions made in the loop and in the drain, the request
\* submitted second added before the one submitted first
C20_Witness ==
    /\ Reported /\ probe = "parallel"
    /\ \E i, j \in DOMAIN additions :
          /\ i < j /\ additions[i].idx > additions[j].idx
          /\ additions[i].by = "loop" /\ additions[j].by = "drain"
    /\ errors > 0

\* C21: once the deadline of the parallel Azure probe has passed, the probe
\* returns to its caller within the 5 seconds of the drain (and the clock tick
\* in which the expiry is noticed); what finishes within the drain is added to
\* the totals.
C21_BoundedDrain ==
    (probe = "parallel" /\ ppc = "ret") =>
        /\ now - drain_start <= DrainTimeout + 1
        /\ \A i \in DOMAIN additions :
              additions[i].by = "drain" => Completion(additions[i]) \in completions

\* C22: a chunk read, a request or a submission to the pool is issued only
\* while the elapsed time is below the duration, in the NAS, the single and
\* the parallel Azure probe; every pending request was submitted before the
\* deadline.
C22_NothingIssuedAfterDeadline ==
    /\ [][(probe \in {"nas", "azure", "parallel"} /\ requests' > requests)
             => now - start_time < duration_sec]_vars
    /\ [](probe = "parallel" => \A f \in futures : f.t0 - start_time < duration_sec)

\* the deadline has passed during the last request of several
C22_Witness ==
    /\ probe \in {"nas", "azure", "parallel"} /\ ppc \in {"loop", "drain"}
    /\ requests >= 2 /\ duration_sec > 0
    /\ now - start_time >= duration_sec

NasLoop == probe = "nas" /\ ppc = "loop"

\* the read of this step finds the end of the file
EofRead == NasLoop /\ requests' > requests /\ errors' = errors /\ f_pos = file_size

\* C23: the NAS probe never leaves its loop because of end-of-file: a read that
\* returns no data seeks to offset 0 and the loop goes on, adding nothing to
\* bytes_read or to the chunks; bytes_read is the sum of the sizes of the
\* counted chunks; the loop is left only at the deadline (or by a failing
\* read), and at the deadline the probe finishes, for a file of size 0 too.
C23_EofSeeksAndContinues ==
    /\ [][EofRead => /\ f_pos' = 0 /\ ppc' = "loop"
                     /\ UNCHANGED <<bytes_read, chunk_times>>]_vars
    /\ [][(NasLoop /\ ppc' # "loop") => (Elapsed >= duration_sec \/ errors' > errors)]_vars
    /\ [](probe = "nas" =>
            /\ bytes_read = SumBytes(additions)
            /\ Len(chunk_times) = Len(additions)
            /\ \A i \in DOMAIN additions : additions[i].bytes > 0
            /\ file_size = 0 => bytes_read = 0 /\ chunk_times = <<>>
            /\ (NasLoop /\ Elapsed >= duration_sec) => ENABLED NasFinish)

\* the probe of an empty file has returned a success record after reads at
\* end-of-file
C23_WitnessEmptyFile ==
    /\ probe = "nas" /\ Reported /\ file_size = 0 /\ requests >= 2

\* a file shorter than a chunk was read to its end more than once
C23_Witness ==
    /\ probe = "nas" /\ Reported /\ file_size > 0 /\ file_size < chunk_size
    /\ Len(additions) >= 2 /\ requests > Len(additions)

\* C24: every ranged GET of the Azure probes asks for exactly chunk_size
\* bytes that lie within the first 100 MiB of the blob, for every chunk index
\* and every chunk size.
C24_RangeWithinWindow ==
    rpc = "done" =>
        /\ range_hdr.range_start >= 0
        /\ range_hdr.range_end - range_hdr.range_start + 1 = range_chunk_mb * MB
        /\ range_hdr.range_end < RangeWindow

Returned(a) == "window" \in DOMAIN a
RaisedClass(a, class) == "exception" \in DOMAIN a /\ a.exception = class

\* the window returned has Petrel and not File Explorer in its title; Petrel is
\* launched at most once, by the call's first step, only when that step found
\* no qualifying window and launch_if_not_found is true; on another platform
\* the call raises RuntimeError before any connect or launch
AttachBasics ==
    /\ [](AttachEnded =>
            /\ Returned(attached) =>
                  /\ sys_platform = "win32"
                  /\ InTitle("Petrel", attached.window)
                  /\ ~InTitle("File Explorer", attached.window)
            /\ launches <= 1
            /\ sys_platform # "win32" =>
                  /\ RaisedClass(attached, "RuntimeError")
                  /\ launches = 0 /\ connects = 0)
    /\ [][launches' > launches =>
             /\ apc = "call" /\ launch_if_not_found /\ launches = 0
             /\ ~Returned(attached')]_vars

C25_WitnessTimeout ==
    /\ apc = "raised" /\ RaisedClass(attached, "TimeoutError")
    /\ launches = 1 /\ connects >= 2

C25_WitnessLaunchFails ==
    /\ apc = "raised" /\ RaisedClass(attached, "RuntimeError") /\ launches = 1

\* at every point the target holds what it held before or the whole content;
\* after a return it holds the whole content and no temporary file is left
TargetNeverPartial ==
    /\ wpc # "idle" => target \in {target_before, Written(content_len)}
    /\ wpc = "returned" => target = Written(content_len) /\ temp = Absent

WriteFailed == wpc = "raised" /\ failed_at \in {"open", "write", "replace"}

\* C26 as stated: the target is never partial, and when writing the temporary
\* file or renaming it fails, that exception propagates, the target is
\* unchanged and the temporary file is removed.
C26_AtomicAndCleaned ==
    /\ TargetNeverPartial
    /\ WriteFailed =>
          /\ propagated = failed_at
          /\ target = target_before
          /\ temp = Absent

\* C26: the target is never partial, and when writing the temporary file or
\* renaming it fails the target is unchanged; the temporary file is removed
\* and that exception propagates unless removing the temporary file fails
\* too, and then the exception of the removal propagates and the file stays.
C26_AtomicTarget ==
    /\ TargetNeverPartial
    /\ WriteFailed =>
          /\ target = target_before
          /\ \/ propagated = failed_at /\ temp = Absent
             \/ propagated = "unlink" /\ temp # Absent

\* the rename failed after the whole content was written over a previous file
C26_Witness ==
    /\ WriteFailed /\ failed_at = "replace" /\ target = Previous
    /\ temp = Absent /\ content_len = MaxContent

C26_WitnessPartial ==
    /\ wpc = "except" /\ failed_at = "write" /\ temp = Written(1) /\ content_len > 1
    /\ target = Previous

C26_WitnessUnlinkFails ==
    /\ WriteFailed /\ propagated = "unlink" /\ temp = Written(1)

\* a timestamp that ISO8601 allows: a real month, a real hour if any, and no
\* designator, 'Z', or an offset of less than a day
ValidIso8601(ts) ==
    /\ ts.wellformed
    /\ ts.month \in 1..12
    /\ ts.hour = NONE \/ ts.hour \in 0..23
    /\ ts.zone \in {"", "Z", "+00:00", "+05:30", "-08:00"}

\* C27: parse_iso8601 returns a datetime whose tzinfo is UTC for every valid
\* ISO8601 input, with a 'Z' suffix or with no timezone included, and raises
\* ValueError for an invalid one.
C27_ReturnsUtc ==
    ipc # "call" /\ ipc # "idle" =>
       IF ValidIso8601(timestamp)
       THEN ipc = "returned" /\ iso_result.aware /\ iso_result.offset = 0
       ELSE ipc = "raised" /\ iso_raised = "ValueError"

\* what the code does keep: a 'Z' suffix gives UTC, an invalid text ValueError
C27_ZSuffixAndInvalid ==
    ipc # "call" /\ ipc # "idle" =>
       /\ ValidIso8601(timestamp) <=> ipc = "returned"
       /\ ~ValidIso8601(timestamp) <=> (ipc = "raised" /\ iso_raised = "ValueError")
       /\ ipc = "returned" /\ timestamp.zone = "Z" =>
             iso_result.aware /\ iso_result.offset = 0

C27_WitnessNaive ==
    ipc = "returned" /\ timestamp.zone = "" /\ timestamp.hour = 10 /\ ~iso_result.aware

C27_WitnessOffset ==
    ipc = "returned" /\ timestamp.zone = "+05:30" /\ iso_result.offset = 330

\* C28: on a Config built by the schema (one that has no attribute the schema
\* does not declare) run() does not fail for a missing attribute: it leaves
\* its last stage, the one that reads azcopy_benchmark_url, either by
\* returning the results or because the azcopy probe it started has raised.
C28_RunReadsDeclaredAttributes ==
    [][cli = "baseline" /\ cpc = "azcopy" /\ ~has_azcopy_attr /\ cpc' # "returned"
          => Len(ran') > Len(ran)]_vars

\* main() has loaded a valid file and run() has reached its last stage
C28_WitnessLastStage ==
    cli = "baseline" /\ entry = "main" /\ cfg_file = "valid" /\ cpc = "azcopy"

\* the sampling loop is at its test and the seconds given have gone by
DurationElapsed ==
    /\ cli = "metrics" /\ cpc = "loop"
    /\ m_duration # NONE
    /\ m_now - m_start >= m_duration * OneSecond

\* C29: whenever a duration is given, 0 included, the sampling loop ends at
\* its first test after that many seconds: the test breaks and no further
\* sample is taken; only without a duration does the test never break.
C29_DurationEndsLoop ==
    /\ [](DurationElapsed => ENABLED MetricsStop)
    /\ [][DurationElapsed => rows' = rows]_vars
    /\ [](cli = "metrics" /\ cpc = "loop" /\ m_duration = NONE => ~ENABLED MetricsStop)

\* --duration 0: the loop is at its first test and does not break
C29_WitnessZero ==
    DurationElapsed /\ m_duration = 0 /\ m_now = m_start /\ rows = 0

\* --duration 0 has written more than one row
C29_WitnessZeroRuns ==
    cli = "metrics" /\ m_duration = 0 /\ rows > 1

\* the requests of an Azure probe that ended in a successful download
Downloads == requests - errors - refused

\* C30: in the single and in the parallel Azure probe alike, a response whose
\* status is neither 200 nor 206 adds no bytes and no chunk time: the list of
\* chunk times never holds more entries than there were successful downloads,
\* and the chunk_count reported is the number of successful downloads.
C30_RefusedNotCounted ==
    probe \in {"azure", "parallel"} =>
       /\ Len(chunk_times) <= Downloads
       /\ Reported => ret.chunk_count = Downloads

\* the single probe alone keeps it
C30_SingleRefusedNotCounted ==
    probe = "azure" =>
       /\ Len(chunk_times) <= Downloads
       /\ Reported => ret.chunk_count = Downloads

\* a success of the single probe that met a refused request
C30_WitnessSingle == probe = "azure" /\ Reported /\ refused > 0 /\ ret.chunk_count > 0

\* a success of the parallel probe that counts a refused request as a chunk
C30_WitnessParallel ==
    probe = "parallel" /\ Reported /\ refused > 0 /\ ret.chunk_count > Downloads

====
